---------------------------- MODULE Spec2Model ----------------------------
(***************************************************************************)
(* A model of the NEURON-side client of BlenderNEURON                      *)
(* (ForNEURON/blenderneuron/client.py): the activity collector, the        *)
(* Ramer-Douglas-Peucker simplifier, the morphology walk with its sphere   *)
(* transform, and the batched dispatch of activity to Blender.             *)
(*                                                                         *)
(* Conventions.                                                            *)
(*  - A Python str is a sequence of one-character strings, so that len,    *)
(*    slicing, lower() and the "in" substring test are computed.           *)
(*  - A Python float is an exact number: coordinates, times and values are *)
(*    integers, a tolerance is a fraction <<num, den>>, and a distance is  *)
(*    held as its square, the fraction <<a, b>> = a/b.  Rounding is not    *)
(*    modelled.                                                            *)
(*  - A Python exception is the field err of the result it replaces        *)
(*    ("none" when nothing was raised).                                    *)
(***************************************************************************)
EXTENDS Integers, Sequences, FiniteSets, TLC

VARIABLES
    rdp_points,       \* the points handed to rdp / simplify_activity
    rdp_epsilon,      \* the tolerance handed to rdp
    rdp_result,       \* what rdp returned or raised
    simplify_result,  \* what simplify_activity returned or raised
    secs,             \* the sections NEURON holds: id -> section
    walk_spherize,    \* the flag spherize_if_DeqL handed to get_cell_coords
    walk_result,      \* what the walk or transform applied to section 1 returned or raised
    groups,           \* self.groups, in insertion order
    now,              \* h.t, in collection periods
    volt,             \* the membrane potential the simulation holds at h.t
    sent,             \* the remote calls the last send dispatched, in order
    sent_groups,      \* self.groups as the last send found it
    raised,           \* the exception the last send raised, or "none"
    call,             \* the call under study: the operation and its arguments
    returned,         \* what that call returned or raised
    blender_ready,    \* the endpoint answers a ping
    connectionStatus, \* self.connectionStatus[0]
    wait,             \* wait_till_blender_is_ready: where it is and its seconds_passed
    include,          \* the flags include_morphology, include_connections, include_activity
    connections,      \* self.connections
    connection_data,  \* self.connection_data: whether it holds "Synapses", and the cells of that record
    netcons,          \* h.NetCon: the NetCons NEURON holds
    answered,         \* the requests of sent the endpoint answered
    containers,       \* the view: the CurveContainer made for each section, by the hash of the section
    last_returned,    \* for each container, the last of link(), unlink() and remove() that has returned
    view              \* SectionObjectView.show: where it is, and the recording granularity of its group

rdp_vars == <<rdp_points, rdp_epsilon, rdp_result, simplify_result>>

walk_vars == <<secs, walk_spherize, walk_result>>

client_vars == <<groups, now, volt, sent, sent_groups, raised>>

call_vars == <<call, returned>>

session_vars == <<blender_ready, connectionStatus, wait>>

model_vars == <<include, connections, connection_data>>

neuron_vars == <<netcons>>

endpoint_vars == <<answered>>

view_vars == <<containers, last_returned, view>>

vars == <<rdp_vars, walk_vars, client_vars, call_vars, session_vars, model_vars, neuron_vars, endpoint_vars, view_vars>>

\* No call is under study.
NoCall == [op |-> "none"]

-----------------------------------------------------------------------------
(* Bounds of the model *)

\* Longest point sequence drawn as an input of rdp.
MaxLen == 4

\* Frames the interpreter allows a recursion before it raises RecursionError.
RecursionLimit == 12

\* Most sections of a drawn cell.
MaxSecs == 4

\* Coordinates of the points drawn as inputs of rdp.
Coords == {0, 1, 2}

\* Tolerances drawn as inputs of rdp: 0, the default 0.32, 1, and one larger
\* than any distance between drawn points (an unbounded tolerance).
Epsilons == {<<0, 1>>, <<8, 25>>, <<1, 1>>, <<100, 1>>}

-----------------------------------------------------------------------------
(* Python helpers *)

Min(a, b) == IF a < b THEN a ELSE b

Max(a, b) == IF a > b THEN a ELSE b

Abs(a) == IF a < 0 THEN -a ELSE a

\* s[lo:hi] of Python for 0 <= lo, hi (indices past the end are clamped).
SliceIndex(i, n) == IF i < 0 THEN Max(i + n, 0) ELSE Min(i, n)

Slice(s, lo, hi) == SubSeq(s, SliceIndex(lo, Len(s)) + 1, SliceIndex(hi, Len(s)))

\* zip(a, b): pairs up to the shorter argument.
Zip(a, b) == [i \in 1..Min(Len(a), Len(b)) |-> <<a[i], b[i]>>]

-----------------------------------------------------------------------------
(* The simplifier *)

\* self.activity_simplification_tolerance = 0.32
activity_simplification_tolerance == <<8, 25>>

\* d1 > d2 for squared distances a/b.
DistGt(d1, d2) == d1[1] * d2[2] > d2[1] * d1[2]

\* As DistGeq, the distance compared with 0.0, the first dmax.
DistGeq_Zero(d, epsilon) == d[1] >= 0

\* d >= epsilon for a squared distance d and a tolerance epsilon.
DistGeq(d, epsilon) ==
    \/ epsilon[1] <= 0
    \/ d[1] * epsilon[2] * epsilon[2] >= epsilon[1] * epsilon[1] * d[2]

distance(a, b) ==
    <<(a[1] - b[1]) * (a[1] - b[1]) + (a[2] - b[2]) * (a[2] - b[2]), 1>>

point_line_distance(point, start, end) ==
    IF start = end
    THEN distance(point, start)
    ELSE LET n == Abs((end[1] - start[1]) * (start[2] - point[2])
                      - (start[1] - point[1]) * (end[2] - start[2]))
             d2 == (end[1] - start[1]) * (end[1] - start[1])
                   + (end[2] - start[2]) * (end[2] - start[2])
         IN  <<n * n, d2>>

\* The loop of rdp over i in range(1, len(points) - 1); index is 0-based.
RECURSIVE rdp_scan(_, _, _, _)
rdp_scan(points, i, index, dmax) ==
    IF i > Len(points) - 2
    THEN [index |-> index, dmax |-> dmax]
    ELSE LET d == point_line_distance(points[i + 1], points[1], points[Len(points)])
         IN  IF DistGt(d, dmax)
             THEN rdp_scan(points, i + 1, i, d)
             ELSE rdp_scan(points, i + 1, index, dmax)

Raise(name, depth) == [err |-> name, pts |-> <<>>, depth |-> depth]

\* rdp called in frame number depth.  The result carries the deepest frame
\* the call reached.
RECURSIVE rdp_frame(_, _, _)
rdp_frame(points, epsilon, depth) ==
    IF depth > RecursionLimit
    THEN Raise("RecursionError", depth)
    ELSE LET m == rdp_scan(points, 1, 0, <<0, 1>>)
         IN  IF DistGeq(m.dmax, epsilon)
             THEN LET left == rdp_frame(Slice(points, 0, m.index + 1), epsilon, depth + 1)
                  IN  IF left.err # "none"
                      THEN left
                      ELSE LET right == rdp_frame(Slice(points, m.index, Len(points)),
                                                  epsilon, depth + 1)
                           IN  IF right.err # "none"
                               THEN right
                               ELSE [err |-> "none",
                                     pts |-> Slice(left.pts, 0, Len(left.pts) - 1) \o right.pts,
                                     depth |-> Max(left.depth, right.depth)]
             ELSE IF Len(points) = 0
                  THEN Raise("IndexError", depth)
                  ELSE [err |-> "none",
                        pts |-> <<points[1], points[Len(points)]>>,
                        depth |-> depth]

rdp(points, epsilon) == rdp_frame(points, epsilon, 1)

\* zip(*reduced): the times and the values of the reduced points.  Unpacking
\* the zip of an empty list into two names raises ValueError.
simplify_activity(times, activity) ==
    LET reduced == rdp(Zip(times, activity), activity_simplification_tolerance)
    IN  IF reduced.err # "none"
        THEN [err |-> reduced.err, times |-> <<>>, values |-> <<>>]
        ELSE IF Len(reduced.pts) = 0
        THEN [err |-> "ValueError", times |-> <<>>, values |-> <<>>]
        ELSE [err |-> "none",
              times |-> [i \in 1..Len(reduced.pts) |-> reduced.pts[i][1]],
              values |-> [i \in 1..Len(reduced.pts) |-> reduced.pts[i][2]]]

-----------------------------------------------------------------------------
(* Strings *)

UpperCase == <<"A", "B", "C", "D", "E", "F", "G", "H", "I", "J", "K", "L", "M",
               "N", "O", "P", "Q", "R", "S", "T", "U", "V", "W", "X", "Y", "Z">>

LowerCase == <<"a", "b", "c", "d", "e", "f", "g", "h", "i", "j", "k", "l", "m",
               "n", "o", "p", "q", "r", "s", "t", "u", "v", "w", "x", "y", "z">>

Digits == <<"0", "1", "2", "3", "4", "5", "6", "7", "8", "9">>

HexDigits == Digits \o <<"a", "b", "c", "d", "e", "f">>

Alphabet == LowerCase \o UpperCase \o Digits \o <<"[", "]", ".", "#", "_">>

\* str.lower()
Lower(s) ==
    [i \in 1..Len(s) |->
        IF \E k \in 1..Len(UpperCase) : UpperCase[k] = s[i]
        THEN LowerCase[CHOOSE k \in 1..Len(UpperCase) : UpperCase[k] = s[i]]
        ELSE s[i]]

\* sub in s
Contains(sub, s) ==
    \E i \in 0..(Len(s) - Len(sub)) : SubSeq(s, i + 1, i + Len(sub)) = sub

\* str(n) for an integer n >= 0
RECURSIVE Str(_)
Str(n) ==
    IF n < 10
    THEN <<Digits[n + 1]>>
    ELSE Str(n \div 10) \o <<Digits[(n % 10) + 1]>>

Ord(c) == CHOOSE k \in 1..Len(Alphabet) : Alphabet[k] = c

RECURSIVE WeightedSum(_, _, _)
WeightedSum(s, j, k) ==
    IF j > Len(s) THEN 0 ELSE (Ord(s[j]) * (j + k) + WeightedSum(s, j + 1, k)) % 16

\* hashlib.md5(name.encode('utf-8')).hexdigest()[:16].  MD5 itself is stood
\* in for by a checksum: like MD5 it is a function of the whole name that
\* yields hexadecimal digits.
Md5Hex16(name) == [k \in 1..16 |-> HexDigits[WeightedSum(name, 1, k) + 1]]

\* max_length=56
MaxNameLength == 56

shorten_name_if_needed(name, max_length) ==
    IF Len(name) > max_length
    THEN Slice(name, 0, max_length - 17) \o <<"#">> \o Md5Hex16(name)
    ELSE name

-----------------------------------------------------------------------------
(* The sections NEURON holds.  Lengths are counted in units of 0.05 um, so    *)
(* that the 0.1 um of the sphere test is 2.                                 *)

\* Kinds of section a model is drawn from.  The kinds a root is drawn from:
\*   sphere    "soma",  2 points, L = diam = 0.8 um
\*   sphere3   "Soma",  3 points, L = 0.8 um, diam = 0.85 um
\*   cylinder  "soma",  2 points (0,0,0) and (10,0,0) of radius 1, L = 10 um, diam = 2 um
\*   edge      "soma",  2 points, L = 0.8 um, diam = 0.9 um (differs by exactly 0.1)
\*   taper     "soma",  2 points, L = diam = 0.8 um, first point of diameter 0.6 um
\*   point     "soma",  1 point,  L = diam = 0.8 um
\*   dend      "dend",  2 points, L = diam = 0.8 um
\*   bare      "dend",  no 3D point yet: define_shape makes 3
RootKinds == {"sphere", "sphere3", "cylinder", "edge", "taper", "point", "dend", "bare"}

\* The kinds a child section is drawn from.
BranchKinds == {"dend", "sphere"}

KindBase(kind) ==
    CASE kind \in {"dend", "bare"} -> <<"d", "e", "n", "d">>
      [] kind = "sphere3" -> <<"S", "o", "m", "a">>
      [] OTHER -> <<"s", "o", "m", "a">>

KindL(kind) == IF kind = "cylinder" THEN 200 ELSE 16

KindDiam(kind) ==
    CASE kind = "sphere3" -> 17
      [] kind = "cylinder" -> 40
      [] kind = "edge" -> 18
      [] kind = "bare" -> 4
      [] OTHER -> 16

\* The x, y, z of the 3D points: along x, from (0, 8 * id, 0).
KindPoints(kind, id) ==
    CASE kind \in {"sphere3", "bare"} -> <<<<0, 8 * id, 0>>, <<8, 8 * id, 0>>, <<16, 8 * id, 0>>>>
      [] kind = "cylinder" -> <<<<0, 8 * id, 0>>, <<200, 8 * id, 0>>>>
      [] kind = "point" -> <<<<0, 8 * id, 0>>>>
      [] OTHER -> <<<<0, 8 * id, 0>>, <<16, 8 * id, 0>>>>

\* The diameters of the 3D points.
KindDiams(kind) ==
    CASE kind = "sphere3" -> <<16, 16, 16>>
      [] kind = "bare" -> <<4, 4, 4>>
      [] kind = "cylinder" -> <<40, 40>>
      [] kind = "taper" -> <<12, 16>>
      [] kind = "point" -> <<16>>
      [] OTHER -> <<16, 16>>

\* A section: name() is the kind's base name and the section's index;
\* shape_pts and shape_diams are what define_shape creates when asked.
Section(id, kind, cell, children) ==
    [name |-> KindBase(kind) \o <<"[">> \o Str(id - 1) \o <<"]">>,
     cell |-> cell,
     L |-> KindL(kind),
     diam |-> KindDiam(kind),
     pts |-> IF kind = "bare" THEN <<>> ELSE KindPoints(kind, id),
     diams |-> IF kind = "bare" THEN <<>> ELSE KindDiams(kind),
     shape_pts |-> KindPoints(kind, id),
     shape_diams |-> KindDiams(kind),
     children |-> children]

\* str(section.cell()) of a section that belongs to no cell.
NoCell == <<"N", "o", "n", "e">>

\* h.n3d(sec=section)
n3d(sec) == Len(sec.pts)

\* h.define_shape(sec=section)
define_shape(sec) == [sec EXCEPT !.pts = sec.shape_pts, !.diams = sec.shape_diams]

\* The section as get_coord_count leaves it: with 3D points.
get_coord_count(sec) == IF n3d(sec) = 0 THEN define_shape(sec) ELSE sec

\* The sections after get_coord_count has been called on each of seen.
DefineShapes(S, seen) ==
    [s \in DOMAIN S |->
        IF \E k \in 1..Len(seen) : seen[k] = s THEN get_coord_count(S[s]) ELSE S[s]]

-----------------------------------------------------------------------------
(* The morphology walk *)

\* abs(section.diam - section.L) < 0.1
DeqLTolerance == 2

\* steps=7
DefaultSteps == 7

\* The non-negative integer whose square is n.
ISqrt(n) == CHOOSE r \in 0..n : r * r = n

\* list[at:at] = elems, and list.insert(at, x) with elems = [x]
InsertAt(list, at, elems) ==
    Slice(list, 0, at) \o elems \o Slice(list, at, Len(list))

\* The loop of spherize_coords from step on.  radii hold the squares of the
\* radii, so that sqrt(radius**2 - dist_to_center**2) is exact; sqrt of a
\* negative number raises ValueError.  The inputs are drawn so that the
\* divisions are exact.
RECURSIVE spherize_steps(_, _, _, _, _)
spherize_steps(sec_coords, g, length, steps, step) ==
    IF step >= steps
    THEN [err |-> "none", sec_coords |-> sec_coords]
    ELSE LET step_size == length \div (steps + 1)
             dist_from_start == step_size + step * step_size
             dist_to_center == Abs(g.radius - dist_from_start)
             step_radius2 == g.radius * g.radius - dist_to_center * dist_to_center
             step_x == g.x1 + (g.range_x * dist_from_start) \div length
             step_y == g.y1 + (g.range_y * dist_from_start) \div length
             step_z == g.z1 + (g.range_z * dist_from_start) \div length
             pt_idx == step + 1
         IN  IF step_radius2 < 0
             THEN [err |-> "ValueError", sec_coords |-> sec_coords]
             ELSE spherize_steps(
                      [sec_coords EXCEPT
                          !.coords = InsertAt(@, pt_idx * 3, <<step_x, step_y, step_z>>),
                          !.radii = InsertAt(@, pt_idx, <<step_radius2>>)],
                      g, length, steps, step + 1)

spherize_coords(sec_coords, length, steps) ==
    LET n == Len(sec_coords.radii)
        radii == IF n > 2
                 THEN <<sec_coords.radii[1], sec_coords.radii[n]>>
                 ELSE sec_coords.radii
        coords == IF n > 2
                  THEN Slice(sec_coords.coords, 0, 3)
                       \o Slice(sec_coords.coords, Len(sec_coords.coords) - 3,
                                Len(sec_coords.coords))
                  ELSE sec_coords.coords
        m == Len(coords)
    IN  IF m < 3 \/ Len(radii) = 0
        THEN [err |-> "IndexError", sec_coords |-> sec_coords]
        ELSE LET g == [x1 |-> coords[1], y1 |-> coords[2], z1 |-> coords[3],
                       range_x |-> coords[m - 2] - coords[1],
                       range_y |-> coords[m - 1] - coords[2],
                       range_z |-> coords[m] - coords[3],
                       radius |-> ISqrt(radii[1])]
                 done == spherize_steps([sec_coords EXCEPT !.coords = coords, !.radii = radii],
                                        g, length, steps, 0)
             IN  IF done.err # "none"
                 THEN done
                 ELSE [err |-> "none",
                       sec_coords |->
                           [done.sec_coords EXCEPT
                               !.radii = [@ EXCEPT ![1] = 0, ![Len(@)] = 0],
                               !.spherical = TRUE]]

\* coords = [x1, y1, z1, x2, y2, z2, ...]
FlatCoords(pts) == [i \in 1..(3 * Len(pts)) |-> pts[((i - 1) \div 3) + 1][((i - 1) % 3) + 1]]

\* radii[c] = diam3d(c) / 2.0, held as its square.
Radii(diams) == [c \in 1..Len(diams) |-> (diams[c] \div 2) * (diams[c] \div 2)]

\* SpherizeApplies with the difference of diam and L allowed to reach 0.1.
SpherizeApplies_UpToTolerance(sec, spherize_if_DeqL) ==
    /\ spherize_if_DeqL
    /\ Contains(<<"s", "o", "m", "a">>, Lower(sec.name))
    /\ Abs(sec.diam - sec.L) <= DeqLTolerance

\* The test of get_cell_coords that sends a section to spherize_coords.
SpherizeApplies(sec, spherize_if_DeqL) ==
    /\ spherize_if_DeqL
    /\ Contains(<<"s", "o", "m", "a">>, Lower(sec.name))
    /\ Abs(sec.diam - sec.L) < DeqLTolerance

\* The record of one section, before the sphere transform.
SecCoords(sec) ==
    [name |-> shorten_name_if_needed(sec.name, MaxNameLength),
     coords |-> FlatCoords(sec.pts),
     radii |-> Radii(sec.diams),
     spherical |-> FALSE]

\* get_cell_coords(section, result, spherize_if_DeqL) on section s of S, and
\* its loop over children from the i-th on.  seen lists the sections whose
\* points were read, in the order of the calls.
RECURSIVE get_cell_coords(_, _, _, _, _), get_children_coords(_, _, _, _, _, _)
get_cell_coords(S, s, result, seen, spherize_if_DeqL) ==
    LET section == get_coord_count(S[s])
        sec_coords == SecCoords(section)
        done == IF SpherizeApplies(section, spherize_if_DeqL)
                THEN spherize_coords(sec_coords, section.L, DefaultSteps)
                ELSE [err |-> "none", sec_coords |-> sec_coords]
    IN  IF done.err # "none"
        THEN [err |-> done.err, result |-> result, seen |-> Append(seen, s)]
        ELSE get_children_coords(S, section.children, 1,
                                 Append(result, done.sec_coords), Append(seen, s),
                                 spherize_if_DeqL)

get_children_coords(S, children, i, result, seen, spherize_if_DeqL) ==
    IF i > Len(children)
    THEN [err |-> "none", result |-> result, seen |-> seen]
    ELSE LET r == get_cell_coords(S, children[i], result, seen, spherize_if_DeqL)
         IN  IF r.err # "none"
             THEN r
             ELSE get_children_coords(S, children, i + 1, r.result, r.seen, spherize_if_DeqL)

-----------------------------------------------------------------------------
(* The activity collector *)

\* An empty collected_activity: the keys in insertion order, and the list
\* of each key.
EmptyActivity == [keys |-> <<>>, vals |-> <<>>]

HasKey(activity, name) == \E k \in 1..Len(activity.keys) : activity.keys[k] = name

\* if name not in activity: activity[name] = []
\* activity[name].append(value)
AppendValue(activity, name, value) ==
    IF HasKey(activity, name)
    THEN LET k == CHOOSE k \in 1..Len(activity.keys) : activity.keys[k] = name
         IN  [activity EXCEPT !.vals[k] = Append(@, value)]
    ELSE [keys |-> Append(activity.keys, name), vals |-> Append(activity.vals, <<value>>)]

\* getattr(section(x), variable): the membrane is isopotential, every
\* segment reads the value v the simulation holds at the time of the call.
Sample(section, v) == v

\* collect_section(section, group, recursive) on section s of S, and its loop
\* over children from the i-th on.
RECURSIVE collect_section(_, _, _, _, _), collect_children(_, _, _, _, _, _)
collect_section(S, s, activity, recursive, v) ==
    LET section == S[s]
        name == IF recursive
                THEN shorten_name_if_needed(section.name, MaxNameLength)
                ELSE section.cell
        appended == AppendValue(activity, name, Sample(section, v))
    IN  IF recursive
        THEN collect_children(S, section.children, 1, appended, recursive, v)
        ELSE appended

collect_children(S, children, i, activity, recursive, v) ==
    IF i > Len(children)
    THEN activity
    ELSE collect_children(S, children, i + 1,
                          collect_section(S, children[i], activity, recursive, v),
                          recursive, v)

\* As collect_segments, with one sample per 3D point.
collect_segments_PerPoint(section, activity, v) ==
    LET short == shorten_name_if_needed(section.name, MaxNameLength)
        names == [i \in 1..n3d(section) |-> short \o <<"[">> \o Str(i - 1) \o <<"]">>]
        named == {names[i] : i \in 1..Len(names)}
        known == {activity.keys[k] : k \in 1..Len(activity.keys)}
        fresh == SelectSeq(names, LAMBDA name : name \notin known)
    IN  [keys |-> activity.keys \o fresh,
         vals |-> [k \in 1..Len(activity.keys) |->
                      IF activity.keys[k] \in named
                      THEN Append(activity.vals[k], Sample(section, v))
                      ELSE activity.vals[k]]
                  \o [k \in 1..Len(fresh) |-> <<Sample(section, v)>>]]

\* The loop of collect_segments_recursive over i in range(1, coordCount).
\* The names of the segments of one section differ in their index, so each
\* series named gains one value: the loop is taken in one step.
collect_segments(section, activity, v) ==
    LET short == shorten_name_if_needed(section.name, MaxNameLength)
        names == [i \in 1..(n3d(section) - 1) |-> short \o <<"[">> \o Str(i - 1) \o <<"]">>]
        named == {names[i] : i \in 1..Len(names)}
        known == {activity.keys[k] : k \in 1..Len(activity.keys)}
        fresh == SelectSeq(names, LAMBDA name : name \notin known)
    IN  [keys |-> activity.keys \o fresh,
         vals |-> [k \in 1..Len(activity.keys) |->
                      IF activity.keys[k] \in named
                      THEN Append(activity.vals[k], Sample(section, v))
                      ELSE activity.vals[k]]
                  \o [k \in 1..Len(fresh) |-> <<Sample(section, v)>>]]

\* collect_segments_recursive(section, group) on section s of S, and its loop
\* over children from the i-th on.  The result is the activity and the
\* sections whose points were read.
RECURSIVE collect_segments_recursive(_, _, _, _, _), collect_segments_children(_, _, _, _, _, _)
collect_segments_recursive(S, s, activity, seen, v) ==
    LET section == get_coord_count(S[s])
    IN  collect_segments_children(S, section.children, 1,
                                  collect_segments(section, activity, v),
                                  Append(seen, s), v)

collect_segments_children(S, children, i, activity, seen, v) ==
    IF i > Len(children)
    THEN [activity |-> activity, seen |-> seen]
    ELSE LET r == collect_segments_recursive(S, children[i], activity, seen, v)
         IN  collect_segments_children(S, children, i + 1, r.activity, r.seen, v)

-----------------------------------------------------------------------------
(* Groups, the collection callback and the dispatch of activity *)

\* if len(payload) > 1000
BatchLimit == 1000

Levels == {"Segment", "Section", "Cell", "Group"}

\* The group create_cell_group builds: its defaults, the given name, roots
\* and color level, and a collector.
CellGroup(name, cells, level) ==
    [name |-> name,
     cells |-> cells,
     collect_activity |-> TRUE,
     frames_per_ms |-> 2,
     spherize_soma_if_DeqL |-> TRUE,
     color_level |-> level,
     has_activity |-> TRUE,
     collection_times |-> <<>>,
     collected_activity |-> EmptyActivity,
     data_cells |-> EmptyActivity]

\* A group the user put into self.groups as a plain dictionary of settings
\* (as in the example of __init__): it has no collector and, until
\* clear_activity runs, neither collection_times nor collected_activity.
PlainGroup(name, cells, level) ==
    [CellGroup(name, cells, level) EXCEPT !.collect_activity = FALSE, !.has_activity = FALSE]

\* The loops of collect_group over group["cells"] from the i-th root on.
RECURSIVE collect_roots_segments(_, _, _, _, _, _)
collect_roots_segments(S, cells, i, activity, seen, v) ==
    IF i > Len(cells)
    THEN [activity |-> activity, seen |-> seen]
    ELSE LET r == collect_segments_recursive(S, cells[i], activity, seen, v)
         IN  collect_roots_segments(S, cells, i + 1, r.activity, r.seen, v)

RECURSIVE collect_roots_sections(_, _, _, _, _, _)
collect_roots_sections(S, cells, i, activity, recursive, v) ==
    IF i > Len(cells)
    THEN activity
    ELSE collect_roots_sections(S, cells, i + 1,
                                collect_section(S, cells[i], activity, recursive, v),
                                recursive, v)

RECURSIVE sum_of_somas(_, _, _, _)
sum_of_somas(S, cells, i, v) ==
    IF i > Len(cells) THEN 0 ELSE Sample(S[cells[i]], v) + sum_of_somas(S, cells, i + 1, v)

\* As collect_group, the Cell level going down into the children.
collect_group_CellRecursive(S, group, h_t, v) ==
    LET timed == [group EXCEPT !.collection_times = Append(@, h_t)]
        level == group.color_level
        activity == group.collected_activity
    IN  IF level = "Segment"
        THEN LET r == collect_roots_segments(S, group.cells, 1, activity, <<>>, v)
             IN  [group |-> [timed EXCEPT !.collected_activity = r.activity],
                  seen |-> r.seen]
        ELSE IF level = "Section"
        THEN [group |-> [timed EXCEPT !.collected_activity =
                            collect_roots_sections(S, group.cells, 1, activity, TRUE, v)],
              seen |-> <<>>]
        ELSE IF level = "Cell"
        THEN [group |-> [timed EXCEPT !.collected_activity =
                            collect_roots_sections(S, group.cells, 1, activity, TRUE, v)],
              seen |-> <<>>]
        ELSE IF Len(group.cells) = 0
        THEN [group |-> timed, seen |-> <<>>]
        ELSE LET value == sum_of_somas(S, group.cells, 1, v) \div Len(group.cells)
                 name == group.name \o <<"G", "r", "o", "u", "p">>
             IN  [group |-> [timed EXCEPT !.collected_activity = AppendValue(activity, name, value)],
                  seen |-> <<>>]

\* collect_group(group_name) at time h_t, the simulation holding the value v:
\* the group after the callback and the sections whose points were read.
\* At Group level with no cell the division by len(group["cells"]) raises
\* ZeroDivisionError, the time appended and no value.
collect_group(S, group, h_t, v) ==
    LET timed == [group EXCEPT !.collection_times = Append(@, h_t)]
        level == group.color_level
        activity == group.collected_activity
    IN  IF level = "Segment"
        THEN LET r == collect_roots_segments(S, group.cells, 1, activity, <<>>, v)
             IN  [group |-> [timed EXCEPT !.collected_activity = r.activity],
                  seen |-> r.seen]
        ELSE IF level = "Section"
        THEN [group |-> [timed EXCEPT !.collected_activity =
                            collect_roots_sections(S, group.cells, 1, activity, TRUE, v)],
              seen |-> <<>>]
        ELSE IF level = "Cell"
        THEN [group |-> [timed EXCEPT !.collected_activity =
                            collect_roots_sections(S, group.cells, 1, activity, FALSE, v)],
              seen |-> <<>>]
        ELSE IF Len(group.cells) = 0
        THEN [group |-> timed, seen |-> <<>>]
        ELSE LET value == sum_of_somas(S, group.cells, 1, v) \div Len(group.cells)
                 name == group.name \o <<"G", "r", "o", "u", "p">>
             IN  [group |-> [timed EXCEPT !.collected_activity = AppendValue(activity, name, value)],
                  seen |-> <<>>]

\* As clear_activity, the series kept.
clear_activity_TimesOnly(G) ==
    [i \in 1..Len(G) |->
        [G[i] EXCEPT !.has_activity = TRUE,
                     !.collection_times = <<>>]]

\* clear_activity()
clear_activity(G) ==
    [i \in 1..Len(G) |->
        [G[i] EXCEPT !.has_activity = TRUE,
                     !.collection_times = <<>>,
                     !.collected_activity = EmptyActivity]]

\* enqueue_method("set_segment_activities", payload).  of_group names the
\* group whose series the call carries; it is not part of the message.
SetSegmentActivities(group, payload) ==
    [method |-> "set_segment_activities", args |-> payload, of_group |-> group.name]

\* The entry of the payload for a series: the simplified series, its times
\* scaled to frames.
payload_entry(name, frames_per_ms, reduced) ==
    IF reduced.err # "none"
    THEN [err |-> reduced.err]
    ELSE [err |-> "none",
          name |-> name,
          times |-> [j \in 1..Len(reduced.times) |-> reduced.times[j] * frames_per_ms],
          activity |-> reduced.values]

\* The body of the loop of send_activity over the parts of a group, for the
\* k-th series.
payload_part(group, k) ==
    payload_entry(group.collected_activity.keys[k],
                  group.frames_per_ms,
                  simplify_activity(group.collection_times,
                                    group.collected_activity.vals[k]))

\* The loop of send_activity over the parts of one group, from the k-th key
\* on with an empty payload: the payload grows by one part per key until
\* len(payload) > 1000, is sent, and the loop goes on with an empty payload.
\* An exception raised by simplify_activity leaves the loop.  send_payload
\* is the end of one such run, parts being the entries made from key k on.
RECURSIVE send_parts(_, _, _), send_payload(_, _, _, _)
send_parts(group, k, calls) ==
    send_payload(group, k, calls,
                 [j \in 1..(Min(k + BatchLimit, Len(group.collected_activity.keys)) - k + 1) |->
                     payload_part(group, k + j - 1)])

send_payload(group, k, calls, parts) ==
    LET failed == {j \in 1..Len(parts) : parts[j].err # "none"}
        payload == [j \in 1..Len(parts) |->
                       [name |-> parts[j].name,
                        times |-> parts[j].times,
                        activity |-> parts[j].activity]]
    IN  IF failed # {}
        THEN [err |-> parts[CHOOSE j \in failed : \A other \in failed : j <= other].err,
              payload |-> <<>>, calls |-> calls]
        ELSE IF Len(payload) > BatchLimit
        THEN send_parts(group, k + Len(parts), Append(calls, SetSegmentActivities(group, payload)))
        ELSE [err |-> "none", payload |-> payload, calls |-> calls]

\* send_activity(): the loop over self.groups.values() from the i-th group
\* on, and the calls it dispatches.  after_parts is the end of the body for
\* group i, r being what the loop over its parts left.
RECURSIVE send_groups(_, _, _), after_parts(_, _, _)
\* As send_groups, a group without collected_activity skipped (continue).
send_groups_SkipsGroup(G, i, calls) ==
    IF i > Len(G)
    THEN [err |-> "none", calls |-> calls]
    ELSE IF ~G[i].has_activity
    THEN send_groups(G, i + 1, calls)
    ELSE after_parts(G, i, send_parts(G[i], 1, calls))

send_groups(G, i, calls) ==
    IF i > Len(G)
    THEN [err |-> "none", calls |-> calls]
    ELSE IF ~G[i].has_activity
    THEN [err |-> "none", calls |-> calls]
    ELSE after_parts(G, i, send_parts(G[i], 1, calls))

after_parts(G, i, r) ==
    IF r.err # "none"
    THEN [err |-> r.err, calls |-> r.calls]
    ELSE send_groups(G, i + 1, Append(r.calls, SetSegmentActivities(G[i], r.payload)))

send_activity(G) == send_groups(G, 1, <<>>)

-----------------------------------------------------------------------------
(* The morphology and the connections sent *)

\* root.cell().hname() if root.cell() is not None else root.name()
cell_name(sec) == IF sec.cell = NoCell THEN sec.name ELSE sec.cell

\* cell_data[cell_name].extend(cell_coords) or cell_data[cell_name] = cell_coords
ExtendEntry(cell_data, name, cell_coords) ==
    IF HasKey(cell_data, name)
    THEN LET k == CHOOSE k \in 1..Len(cell_data.keys) : cell_data.keys[k] = name
         IN  [cell_data EXCEPT !.vals[k] = @ \o cell_coords]
    ELSE [keys |-> Append(cell_data.keys, name), vals |-> Append(cell_data.vals, cell_coords)]

\* The loop of gather_group_coords over group["cells"] from the i-th root
\* on.  after_root is the end of the body, walk being what get_cell_coords
\* returned or raised.
RECURSIVE gather_roots(_, _, _, _, _), after_root(_, _, _, _, _, _)
gather_roots(S, group, i, cell_data, seen) ==
    IF i > Len(group.cells)
    THEN [err |-> "none", cell_data |-> cell_data, seen |-> seen]
    ELSE after_root(S, group, i, cell_data, seen,
                    get_cell_coords(S, group.cells[i], <<>>, <<>>, group.spherize_soma_if_DeqL))

after_root(S, group, i, cell_data, seen, walk) ==
    IF walk.err # "none"
    THEN [err |-> walk.err, cell_data |-> cell_data, seen |-> seen \o walk.seen]
    ELSE gather_roots(S, group, i + 1,
                      ExtendEntry(cell_data, cell_name(S[group.cells[i]]), walk.result),
                      seen \o walk.seen)

\* gather_group_coords(group): the group with its 3d_data cells, and the
\* sections whose points were read.
gather_group_coords(S, group) ==
    LET r == gather_roots(S, group, 1, EmptyActivity, <<>>)
    IN  [err |-> r.err, group |-> [group EXCEPT !.data_cells = r.cell_data], seen |-> r.seen]

\* What a NetCon gives send_cons.  Its source, pre, is one of
\*   "located"     con.pre() is a point process, get_segment() is its segment
\*   "unlocated"   con.pre() is a point process in no section: get_segment() is None
\*   "artificial"  con.pre() is an artificial cell: it has no get_segment
\*   "section"     con.pre() is None and con.preloc() is a location on a section
\*   "none"        con.pre() is None and con.preloc() is -1
\* and its target, post, one of "located", "unlocated", "artificial", "none"
\* (con.syn() is None).  Positions along a section are counted in halves.
NetCon(pre, pre_sec, pre_x, post, post_sec, post_x) ==
    [pre |-> pre, pre_sec |-> pre_sec, pre_x |-> pre_x,
     post |-> post, post_sec |-> post_sec, post_x |-> post_x]

\* get_coords_along_sec(section, along), along = along2 / 2.  With no 3D
\* point in the section x3d raises.
get_coords_along_sec(section, along2) ==
    LET coord_count == n3d(section)
        along_coords2 == (coord_count - 1) * along2
        start_coord_i == along_coords2 \div 2
        along_start_coord2 == along_coords2 % 2
    IN  IF coord_count = 0
        THEN [err |-> "RuntimeError", pos |-> <<>>]
        ELSE IF along_start_coord2 > 0
        THEN [err |-> "none",
              pos |-> [d \in 1..3 |->
                          section.pts[start_coord_i + 1][d]
                          + (section.pts[start_coord_i + 2][d]
                             - section.pts[start_coord_i + 1][d]) \div 2]]
        ELSE [err |-> "none", pos |-> section.pts[start_coord_i + 1]]

\* "NetCon["+str(i)+"]"
NetConName(i) == <<"N", "e", "t", "C", "o", "n", "[">> \o Str(i) \o <<"]">>

\* The body of the loop of send_cons for the connection of index i (from
\* 0): the connection is skipped, or its entry is made, or the body raises.
con_entry(S, con, i) ==
    IF con.pre \in {"artificial", "none"}
    THEN [err |-> "none", skip |-> TRUE]
    ELSE IF con.post \in {"none", "artificial"}
    THEN [err |-> "none", skip |-> TRUE]
    ELSE IF con.pre = "unlocated"
    THEN [err |-> "AttributeError", skip |-> TRUE]
    ELSE IF get_coords_along_sec(S[con.pre_sec], con.pre_x).err # "none"
    THEN [err |-> get_coords_along_sec(S[con.pre_sec], con.pre_x).err, skip |-> TRUE]
    ELSE IF con.post = "unlocated"
    THEN [err |-> "AttributeError", skip |-> TRUE]
    ELSE IF get_coords_along_sec(S[con.post_sec], con.post_x).err # "none"
    THEN [err |-> get_coords_along_sec(S[con.post_sec], con.post_x).err, skip |-> TRUE]
    ELSE [err |-> "none", skip |-> FALSE,
          name |-> NetConName(i),
          entry |-> <<[name |-> NetConName(i),
                       coords |-> get_coords_along_sec(S[con.pre_sec], con.pre_x).pos
                                  \o get_coords_along_sec(S[con.post_sec], con.post_x).pos,
                       radii |-> <<1, 1>>]>>]

\* The loop of send_cons over enumerate(self.connections) from the k-th
\* connection on.  after_con is the end of the body.
RECURSIVE cons_loop(_, _, _, _), after_con(_, _, _, _, _)
cons_loop(S, cons_list, k, cons) ==
    IF k > Len(cons_list)
    THEN [err |-> "none", cons |-> cons]
    ELSE after_con(S, cons_list, k, cons, con_entry(S, cons_list[k], k - 1))

after_con(S, cons_list, k, cons, made) ==
    IF made.err # "none"
    THEN [err |-> made.err, cons |-> cons]
    ELSE IF made.skip
    THEN cons_loop(S, cons_list, k + 1, cons)
    ELSE cons_loop(S, cons_list, k + 1,
                   [keys |-> Append(cons.keys, made.name), vals |-> Append(cons.vals, made.entry)])

\* enqueue_method("create_cons", self.connection_data["Synapses"])
CreateCons(cells) == [method |-> "create_cons", args |-> cells]

\* The end of send_cons, looped being what the loop left: the cells of the
\* "Synapses" record are set and the record is sent.
send_cons_end(data, looped) ==
    IF looped.err # "none"
    THEN [err |-> looped.err, connection_data |-> data, calls |-> <<>>]
    ELSE IF ~data.has_synapses
    THEN [err |-> "KeyError", connection_data |-> data, calls |-> <<>>]
    ELSE [err |-> "none",
          connection_data |-> [data EXCEPT !.cells = looped.cons],
          calls |-> <<CreateCons(looped.cons)>>]

\* send_cons()
send_cons(S, cons_list, data) ==
    send_cons_end(data, cons_loop(S, cons_list, 1, EmptyActivity))

-----------------------------------------------------------------------------
(* The transmission session: send_model and to_blender.  A method works on  *)
(* the client, a record of the fields of self it reads and writes, the      *)
(* sections, the requests made of the endpoint so far and the exception     *)
(* raised, if any.                                                          *)

\* h.tstop, in ms
TStop == 5

\* self.client.ping()
Ping(ok) == [method |-> "ping", ok |-> ok]

\* A method of the addon called with arguments.
Request(method, args) == [method |-> method, args |-> args]

\* A step of a method: skipped once an exception is raised.
Then(C, Step(_)) == IF C.err # "none" THEN C ELSE Step(C)

\* self.client.enqueue_method / run_method: the request is made of the
\* server proxy, and raises when the endpoint does not answer.  C.answers
\* is the number of requests the endpoint still answers.
remote(C, request) ==
    [C EXCEPT !.calls = Append(@, request),
              !.err = IF C.answers > 0 THEN "none" ELSE "ConnectionError",
              !.answered = IF C.answers > 0 THEN @ + 1 ELSE @,
              !.answers = IF @ > 0 THEN @ - 1 ELSE 0]

\* is_blender_ready(): the ping answers or raises, and the status shown.
is_blender_ready(ready) ==
    [result |-> ready,
     connectionStatus |-> IF ready THEN "Ready" ELSE "Not Connected"]

\* is_blender_ready() on the client: C.ready is what it returned.
ping_blender(C) ==
    [C EXCEPT !.calls = Append(@, Ping(C.answers > 0)),
              !.connectionStatus = is_blender_ready(C.answers > 0).connectionStatus,
              !.ready = C.answers > 0,
              !.answered = IF C.answers > 0 THEN @ + 1 ELSE @,
              !.answers = IF @ > 0 THEN @ - 1 ELSE 0]

\* get_detail_level(cell_count)
get_detail_level(cell_count) ==
    IF cell_count <= 5 THEN "Segment"
    ELSE IF cell_count <= 25 THEN "Section"
    ELSE IF cell_count <= 100 THEN "Cell"
    ELSE "Group"

\* SectionList.allroots(): the sections that are no section's child.
allroots(S) ==
    SelectSeq([s \in 1..Len(S) |-> s],
              LAMBDA s : \A p \in 1..Len(S) :
                             \A i \in 1..Len(S[p].children) : S[p].children[i] # s)

\* setup_default_group(), no group "all" being there.
setup_default_group(C) ==
    [C EXCEPT !.groups = Append(@, CellGroup(<<"a", "l", "l">>, allroots(C.secs),
                                             get_detail_level(Len(allroots(C.secs)))))]

\* setup_default_connections()
setup_default_connections(C) ==
    [C EXCEPT !.connections = C.netcons,
              !.connection_data = [has_synapses |-> TRUE, cells |-> EmptyActivity]]

\* The second test of setup_defaults_if_needed.
default_connections_if_needed(C) ==
    IF Len(C.connections) = 0 /\ C.include.connections
    THEN setup_default_connections(C)
    ELSE C

\* setup_defaults_if_needed()
setup_defaults_if_needed(C) ==
    default_connections_if_needed(
        IF Len(C.groups) = 0 /\ C.include.morphology THEN setup_default_group(C) ELSE C)

\* send_group(group): the 3d_data of the group is sent.
send_group(C, group) ==
    remote(C, Request("visualize_group",
                      [name |-> group.name,
                       color_level |-> group.color_level,
                       cells |-> group.data_cells]))

\* The loop of send_morphology over self.groups.values() from the i-th group
\* on.  after_gather is the end of the body, gathered being what
\* gather_group_coords left.
RECURSIVE morphology_loop(_, _), after_gather(_, _, _)
morphology_loop(C, i) ==
    IF i > Len(C.groups) \/ C.err # "none"
    THEN C
    ELSE after_gather(C, i, gather_group_coords(C.secs, C.groups[i]))

after_gather(C, i, gathered) ==
    IF gathered.err # "none"
    THEN [C EXCEPT !.groups[i] = gathered.group,
                   !.secs = DefineShapes(C.secs, gathered.seen),
                   !.err = gathered.err]
    ELSE morphology_loop(
             send_group([C EXCEPT !.groups[i] = gathered.group,
                                  !.secs = DefineShapes(C.secs, gathered.seen)],
                        gathered.group),
             i + 1)

\* send_morphology()
send_morphology(C) == morphology_loop(C, 1)

\* send_cons() on the client, made being what the method did short of
\* making the request.
cons_sent(C, made) ==
    IF made.err # "none"
    THEN [C EXCEPT !.err = made.err]
    ELSE remote([C EXCEPT !.connection_data = made.connection_data], made.calls[1])

client_send_cons(C) == cons_sent(C, send_cons(C.secs, C.connections, C.connection_data))

\* As activity_sent, the calls after the failed one made all the same.
activity_sent_AllCalls(C, made) ==
    IF C.answers >= Len(made.calls)
    THEN [C EXCEPT !.calls = @ \o made.calls,
                   !.err = made.err,
                   !.answered = @ + Len(made.calls),
                   !.answers = @ - Len(made.calls)]
    ELSE [C EXCEPT !.calls = @ \o made.calls,
                   !.err = "ConnectionError",
                   !.answered = @ + C.answers,
                   !.answers = 0]

\* send_activity() on the client, made being the requests of the method and
\* what it raised.
activity_sent(C, made) ==
    IF C.answers >= Len(made.calls)
    THEN [C EXCEPT !.calls = @ \o made.calls,
                   !.err = made.err,
                   !.answered = @ + Len(made.calls),
                   !.answers = @ - Len(made.calls)]
    ELSE [C EXCEPT !.calls = @ \o SubSeq(made.calls, 1, C.answers + 1),
                   !.err = "ConnectionError",
                   !.answered = @ + C.answers,
                   !.answers = 0]

client_send_activity(C) == activity_sent(C, send_activity(C.groups))

\* The steps of send_model after the readiness test.
clear_scene(C) == remote(C, Request("clear", <<>>))

morphology_if_included(C) == IF C.include.morphology THEN send_morphology(C) ELSE C

cons_if_included(C) == IF C.include.connections THEN client_send_cons(C) ELSE C

activity_if_included(C) == IF C.include.activity THEN client_send_activity(C) ELSE C

\* if not self.is_blender_ready(): raise Exception(...)
raise_if_not_ready(C) == IF C.ready THEN C ELSE [C EXCEPT !.err = "Exception"]

\* As send_model, the defaults set up before the readiness test.
send_model_DefaultsFirst(C) ==
    Then(Then(Then(Then(raise_if_not_ready(ping_blender(setup_defaults_if_needed(C))),
                        clear_scene),
                   morphology_if_included),
              cons_if_included),
         activity_if_included)

\* send_model()
send_model(C) ==
    Then(Then(Then(Then(Then(raise_if_not_ready(ping_blender(C)),
                             setup_defaults_if_needed),
                        clear_scene),
                   morphology_if_included),
              cons_if_included),
         activity_if_included)

\* get_num_frames(): max() of no group raises.
get_num_frames(G) ==
    IF Len(G) = 0
    THEN [err |-> "ValueError", frames |-> 0]
    ELSE [err |-> "none",
          frames |-> TStop * (CHOOSE f \in {G[i].frames_per_ms : i \in 1..Len(G)} :
                                 \A i \in 1..Len(G) : G[i].frames_per_ms <= f)]

\* The steps of to_blender after send_model.
link_objects(C) == remote(C, Request("link_objects", <<>>))

show_full_scene(C) == remote(C, Request("show_full_scene", <<>>))

color_by_unique_materials(C) == remote(C, Request("color_by_unique_materials", <<>>))

set_render_params(C) ==
    IF get_num_frames(C.groups).err # "none"
    THEN [C EXCEPT !.err = get_num_frames(C.groups).err]
    ELSE remote(C, Request("set_render_params", <<0, get_num_frames(C.groups).frames>>))

\* if color_unique_names: self.enqueue_method('color_by_unique_materials')
color_if_asked(C, color_unique_names) ==
    IF color_unique_names THEN Then(C, color_by_unique_materials) ELSE C

\* As to_blender_send, the objects linked before the model is sent.
to_blender_send_LinkFirst(C, color_unique_names) ==
    Then(color_if_asked(Then(send_model(link_objects(C)),
                             show_full_scene),
                        color_unique_names),
         set_render_params)

\* to_blender(color_unique_names) from self.send_model() on.
to_blender_send(C, color_unique_names) ==
    Then(color_if_asked(Then(Then(send_model(C),
                                  link_objects),
                             show_full_scene),
                        color_unique_names),
         set_render_params)

-----------------------------------------------------------------------------
(* Specification of the simplifier: inputs are drawn, then the functions    *)
(* are applied.                                                            *)

Points == Coords \X Coords

SeqsUpTo(S, n) == UNION {[1..k -> S] : k \in 0..n}

\* The series times = [0,1,2,3,4], values = [0,1,2,3,4].
LinearSeries == [i \in 1..5 |-> <<i - 1, i - 1>>]

Pending == [err |-> "pending"]

InitRdp ==
    /\ rdp_points \in SeqsUpTo(Points, MaxLen) \cup {LinearSeries}
    /\ rdp_epsilon \in Epsilons
    /\ rdp_result = Pending
    /\ simplify_result = Pending
    /\ secs = <<>>
    /\ walk_spherize = FALSE
    /\ walk_result = [op |-> "none"]
    /\ groups = <<>>
    /\ now = 0
    /\ volt = 0
    /\ sent = <<>>
    /\ sent_groups = <<>>
    /\ raised = "none"
    /\ call = NoCall
    /\ returned = NoCall
    /\ containers = <<>>
    /\ last_returned = <<>>
    /\ view = [pc |-> "idle"]
    /\ answered = 0
    /\ netcons = <<>>
    /\ include = [morphology |-> TRUE, connections |-> TRUE, activity |-> TRUE]
    /\ connections = <<>>
    /\ connection_data = [has_synapses |-> FALSE, cells |-> [keys |-> <<>>, vals |-> <<>>]]
    /\ blender_ready = TRUE
    /\ connectionStatus = "---"
    /\ wait = [pc |-> "idle", seconds_passed |-> 0]

CallRdp ==
    /\ rdp_result = Pending
    /\ rdp_result' = rdp(rdp_points, rdp_epsilon)
    /\ UNCHANGED <<rdp_points, rdp_epsilon, simplify_result, walk_vars, client_vars, call_vars, session_vars, model_vars, neuron_vars, endpoint_vars, view_vars>>

CallSimplifyActivity ==
    /\ simplify_result = Pending
    /\ simplify_result' =
           simplify_activity([i \in 1..Len(rdp_points) |-> rdp_points[i][1]],
                             [i \in 1..Len(rdp_points) |-> rdp_points[i][2]])
    /\ UNCHANGED <<rdp_points, rdp_epsilon, rdp_result, walk_vars, client_vars, call_vars, session_vars, model_vars, neuron_vars, endpoint_vars, view_vars>>

NextRdp == CallRdp \/ CallSimplifyActivity

SpecRdp == InitRdp /\ [][NextRdp]_vars

-----------------------------------------------------------------------------
(* Specification of the walks: a cell is drawn, then one walk or the sphere *)
(* transform is applied to its root, section 1.                             *)

\* The numbers of steps drawn as an input of spherize_coords.
StepChoices == {0, 1, 3, DefaultSteps}

\* The potentials drawn as the value a collection callback reads.
Values == {0, 1}

\* The elements of a set of integers, ascending.
RECURSIVE Ascending(_)
Ascending(set) ==
    IF set = {}
    THEN <<>>
    ELSE LET least == CHOOSE x \in set : \A y \in set : x <= y
         IN  <<least>> \o Ascending(set \ {least})

\* The trees on sections 1..n with root 1: each other section names its
\* parent, a section of smaller index.
ParentMaps(n) == {p \in [2..n -> 1..n] : \A i \in 2..n : p[i] < i}

\* children() returns the children in the order of their indices.
ChildrenOf(p, s) == Ascending({i \in DOMAIN p : p[i] = s})

CellName == <<"C", "e", "l", "l", "[", "0", "]">>

\* The cells drawn: a tree of at most MaxSecs sections, each of a drawn kind.
DrawnCells ==
    UNION {
        UNION {
            {[s \in 1..n |-> Section(s, kinds[s], CellName, ChildrenOf(p, s))] :
                kinds \in {k \in [1..n -> RootKinds] : \A i \in 2..n : k[i] \in BranchKinds}}
            : p \in ParentMaps(n)}
        : n \in 1..MaxSecs}

WalkPending == [op |-> "none"]

InitWalk ==
    /\ secs \in DrawnCells
    /\ walk_spherize \in BOOLEAN
    /\ walk_result = WalkPending
    /\ rdp_points = <<>>
    /\ rdp_epsilon = activity_simplification_tolerance
    /\ rdp_result = Pending
    /\ simplify_result = Pending
    /\ groups = <<>>
    /\ now = 0
    /\ volt = 0
    /\ sent = <<>>
    /\ sent_groups = <<>>
    /\ raised = "none"
    /\ call = NoCall
    /\ returned = NoCall
    /\ containers = <<>>
    /\ last_returned = <<>>
    /\ view = [pc |-> "idle"]
    /\ answered = 0
    /\ netcons = <<>>
    /\ include = [morphology |-> TRUE, connections |-> TRUE, activity |-> TRUE]
    /\ connections = <<>>
    /\ connection_data = [has_synapses |-> FALSE, cells |-> [keys |-> <<>>, vals |-> <<>>]]
    /\ blender_ready = TRUE
    /\ connectionStatus = "---"
    /\ wait = [pc |-> "idle", seconds_passed |-> 0]

CallGetCellCoords ==
    /\ walk_result = WalkPending
    /\ LET r == get_cell_coords(secs, 1, <<>>, <<>>, walk_spherize)
       IN  /\ walk_result' = [op |-> "get_cell_coords", err |-> r.err,
                              result |-> r.result, seen |-> r.seen]
           /\ secs' = DefineShapes(secs, r.seen)
    /\ UNCHANGED <<walk_spherize, rdp_vars, client_vars, call_vars, session_vars, model_vars, neuron_vars, endpoint_vars, view_vars>>

CallSpherizeCoords ==
    /\ walk_result = WalkPending
    /\ \E steps \in StepChoices :
           LET section == get_coord_count(secs[1])
               r == spherize_coords(SecCoords(section), section.L, steps)
           IN  /\ walk_result' = [op |-> "spherize_coords", steps |-> steps,
                                  input |-> SecCoords(section),
                                  err |-> r.err, sec_coords |-> r.sec_coords]
               /\ secs' = DefineShapes(secs, <<1>>)
    /\ UNCHANGED <<walk_spherize, rdp_vars, client_vars, call_vars, session_vars, model_vars, neuron_vars, endpoint_vars, view_vars>>

CallCollectSection ==
    /\ walk_result = WalkPending
    /\ \E recursive \in BOOLEAN, v \in Values :
           walk_result' = [op |-> "collect_section", recursive |-> recursive,
                           activity |-> collect_section(secs, 1, EmptyActivity, recursive, v)]
    /\ UNCHANGED <<secs, walk_spherize, rdp_vars, client_vars, call_vars, session_vars, model_vars, neuron_vars, endpoint_vars, view_vars>>

CallCollectSegments ==
    /\ walk_result = WalkPending
    /\ \E v \in Values :
           LET r == collect_segments_recursive(secs, 1, EmptyActivity, <<>>, v)
           IN  /\ walk_result' = [op |-> "collect_segments_recursive",
                                  activity |-> r.activity, seen |-> r.seen]
               /\ secs' = DefineShapes(secs, r.seen)
    /\ UNCHANGED <<walk_spherize, rdp_vars, client_vars, call_vars, session_vars, model_vars, neuron_vars, endpoint_vars, view_vars>>

NextWalk ==
    \/ CallGetCellCoords
    \/ CallSpherizeCoords
    \/ CallCollectSection
    \/ CallCollectSegments

SpecWalk == InitWalk /\ [][NextWalk]_vars

-----------------------------------------------------------------------------
(* Specification of the client: a NEURON model and the groups are set up,   *)
(* then the simulation runs (the time advances, the collectors fire,        *)
(* finitialize restarts it) and the activity is sent.                       *)

\* Last time of a simulation run, in collection periods.
MaxTime == 2

Cell0 == <<"C", "e", "l", "l", "[", "0", "]">>

Cell1 == <<"C", "e", "l", "l", "[", "1", "]">>

\* Two cells.  Cell[0] has two roots, sections 1 and 2, and section 3 is a
\* child of section 1; Cell[1] is the single section 4.
TwoCells ==
    <<Section(1, "sphere", Cell0, <<3>>),
      Section(2, "dend", Cell0, <<>>),
      Section(3, "bare", Cell0, <<>>),
      Section(4, "dend", Cell1, <<>>)>>

\* One cell of one section with n 3D points, a point every 0.4 um along x.
LongSection(n) ==
    <<[Section(1, "dend", Cell0, <<>>) EXCEPT
          !.L = 8 * (n - 1),
          !.pts = [i \in 1..n |-> <<8 * (i - 1), 8, 0>>],
          !.diams = [i \in 1..n |-> 4],
          !.shape_pts = [i \in 1..n |-> <<8 * (i - 1), 8, 0>>],
          !.shape_diams = [i \in 1..n |-> 4]]>>

\* A name of 60 characters, longer than shorten_name_if_needed lets pass.
LongName == [i \in 1..60 |-> Alphabet[(i % 26) + 1]]

\* One cell: the root has 3 points, its first child 1 point, and its second
\* child 2 points and a name of 60 characters.
MixedCell ==
    <<Section(1, "sphere3", Cell0, <<2, 3>>),
      Section(2, "point", Cell0, <<>>),
      [Section(3, "dend", Cell0, <<>>) EXCEPT !.name = LongName]>>

NameAll == <<"a", "l", "l">>

NameA == <<"a">>

NameB == <<"b">>

\* The set-ups drawn: the sections and self.groups, in insertion order.
Setups ==
    {[secs |-> TwoCells, groups |-> <<CellGroup(NameAll, <<1, 2, 4>>, level)>>] :
        level \in Levels}
    \cup {[secs |-> TwoCells,
           groups |-> <<CellGroup(NameA, <<1, 2>>, la), CellGroup(NameB, <<4>>, lb)>>] :
             la \in {"Section", "Cell"}, lb \in {"Segment", "Group"}}
    \cup {[secs |-> TwoCells,
           groups |-> <<PlainGroup(NameA, <<1, 2>>, "Section"),
                        CellGroup(NameB, <<4>>, "Segment")>>],
          [secs |-> TwoCells,
           groups |-> <<CellGroup(NameB, <<4>>, "Segment"),
                        PlainGroup(NameA, <<1, 2>>, "Section")>>]}
    \cup {[secs |-> MixedCell, groups |-> <<CellGroup(NameAll, <<1>>, level)>>] :
             level \in {"Segment", "Cell"}}
    \cup {[secs |-> TwoCells,
           groups |-> <<CellGroup(NameA, <<>>, "Group"), CellGroup(NameB, <<4>>, "Section")>>]}
    \cup {[secs |-> LongSection(n), groups |-> <<CellGroup(NameAll, <<1>>, "Segment")>>] :
             n \in {BatchLimit + 1, BatchLimit + 2, 2 * BatchLimit + 3}}

Init ==
    /\ \E setup \in Setups :
           /\ secs = setup.secs
           /\ groups = setup.groups
    /\ now = 0
    /\ volt = 0
    /\ sent = <<>>
    /\ sent_groups = <<>>
    /\ raised = "none"
    /\ call = NoCall
    /\ returned = NoCall
    /\ containers = <<>>
    /\ last_returned = <<>>
    /\ view = [pc |-> "idle"]
    /\ answered = 0
    /\ netcons = <<>>
    /\ include = [morphology |-> TRUE, connections |-> TRUE, activity |-> TRUE]
    /\ connections = <<>>
    /\ connection_data = [has_synapses |-> FALSE, cells |-> [keys |-> <<>>, vals |-> <<>>]]
    /\ blender_ready = TRUE
    /\ connectionStatus = "---"
    /\ wait = [pc |-> "idle", seconds_passed |-> 0]
    /\ walk_spherize = FALSE
    /\ walk_result = WalkPending
    /\ rdp_points = <<>>
    /\ rdp_epsilon = activity_simplification_tolerance
    /\ rdp_result = Pending
    /\ simplify_result = Pending

\* The collector of group i has fired at the current time.
Collected(i) ==
    IF Len(groups[i].collection_times) = 0
    THEN FALSE
    ELSE groups[i].collection_times[Len(groups[i].collection_times)] = now

\* The simulation advances h.t by one collection period, once the events
\* due at h.t (the collectors) are delivered.
Advance ==
    /\ now < MaxTime
    /\ \A i \in 1..Len(groups) : groups[i].collect_activity => Collected(i)
    /\ now' = now + 1
    /\ volt' \in Values
    /\ UNCHANGED <<secs, groups, sent, sent_groups, raised, walk_spherize, walk_result, rdp_vars, call_vars, session_vars, model_vars, neuron_vars, endpoint_vars, view_vars>>

\* h.run() starts over: finitialize sets h.t to 0 and runs the
\* FInitializeHandler, clear_activity.
Finitialize ==
    /\ now' = 0
    /\ volt' = 0
    /\ groups' = clear_activity(groups)
    /\ UNCHANGED <<secs, sent, sent_groups, raised, walk_spherize, walk_result, rdp_vars, call_vars, session_vars, model_vars, neuron_vars, endpoint_vars, view_vars>>

\* As CollectGroup, the time appended to the times of every group.
CollectGroup_TimesOfAll(i) ==
    /\ groups[i].collect_activity
    /\ ~Collected(i)
    /\ LET r == collect_group(secs, groups[i], now, volt)
       IN  /\ groups' = [j \in 1..Len(groups) |->
                            IF j = i THEN r.group
                            ELSE [groups[j] EXCEPT !.collection_times = Append(@, now)]]
           /\ secs' = DefineShapes(secs, r.seen)
    /\ UNCHANGED <<now, volt, sent, sent_groups, raised, walk_spherize, walk_result, rdp_vars, call_vars, session_vars, model_vars, neuron_vars, endpoint_vars, view_vars>>

\* The collector of group i fires at the current time: collect_group.
CollectGroup(i) ==
    /\ groups[i].collect_activity
    /\ ~Collected(i)
    /\ LET r == collect_group(secs, groups[i], now, volt)
       IN  /\ groups' = [groups EXCEPT ![i] = r.group]
           /\ secs' = DefineShapes(secs, r.seen)
    /\ UNCHANGED <<now, volt, sent, sent_groups, raised, walk_spherize, walk_result, rdp_vars, call_vars, session_vars, model_vars, neuron_vars, endpoint_vars, view_vars>>

\* As SendActivity, the times of every group scaled to frames in place.
SendActivity_ScalesInPlace ==
    /\ LET r == send_activity(groups)
       IN  /\ sent' = r.calls
           /\ raised' = r.err
    /\ sent_groups' = groups
    /\ answered' = Len(send_activity(groups).calls)
    /\ groups' = [i \in 1..Len(groups) |->
                     [groups[i] EXCEPT !.collection_times =
                         [j \in 1..Len(@) |-> @[j] * groups[i].frames_per_ms]]]
    /\ UNCHANGED <<secs, now, volt, walk_spherize, walk_result, rdp_vars, call_vars, session_vars, model_vars, neuron_vars, view_vars>>

\* send_activity()
SendActivity ==
    /\ LET r == send_activity(groups)
       IN  /\ sent' = r.calls
           /\ raised' = r.err
    /\ sent_groups' = groups
    /\ answered' = Len(send_activity(groups).calls)
    /\ UNCHANGED <<secs, groups, now, volt, walk_spherize, walk_result, rdp_vars, call_vars, session_vars, model_vars, neuron_vars, view_vars>>

Next ==
    \/ Advance
    \/ Finitialize
    \/ \E i \in 1..Len(groups) : CollectGroup(i)
    \/ SendActivity

Spec == Init /\ [][Next]_vars

-----------------------------------------------------------------------------
(* Specification of the name shortener: shorten_name_if_needed is called on *)
(* a drawn name with a drawn max_length.                                    *)

\* Longest name drawn.
MaxNameLen == 60

\* The names drawn: section names of every length up to MaxNameLen, two of
\* each length.
DrawnName(n, stride) == [i \in 1..n |-> Alphabet[((i * stride) % Len(Alphabet)) + 1]]

DrawnNames == {DrawnName(n, stride) : n \in 0..MaxNameLen, stride \in {1, 7}}

\* The values of max_length drawn, the default among them.
MaxLengths == {0, 1, 16, 17, 18, 40, MaxNameLength}

InitName ==
    /\ \E name \in DrawnNames, max_length \in MaxLengths :
           call = [op |-> "shorten_name_if_needed", name |-> name, max_length |-> max_length]
    /\ returned = NoCall
    /\ containers = <<>>
    /\ last_returned = <<>>
    /\ view = [pc |-> "idle"]
    /\ answered = 0
    /\ netcons = <<>>
    /\ include = [morphology |-> TRUE, connections |-> TRUE, activity |-> TRUE]
    /\ connections = <<>>
    /\ connection_data = [has_synapses |-> FALSE, cells |-> [keys |-> <<>>, vals |-> <<>>]]
    /\ blender_ready = TRUE
    /\ connectionStatus = "---"
    /\ wait = [pc |-> "idle", seconds_passed |-> 0]
    /\ secs = <<>>
    /\ walk_spherize = FALSE
    /\ walk_result = [op |-> "none"]
    /\ rdp_points = <<>>
    /\ rdp_epsilon = activity_simplification_tolerance
    /\ rdp_result = [err |-> "pending"]
    /\ simplify_result = [err |-> "pending"]
    /\ groups = <<>>
    /\ now = 0
    /\ volt = 0
    /\ sent = <<>>
    /\ sent_groups = <<>>
    /\ raised = "none"

CallShortenName ==
    /\ call.op = "shorten_name_if_needed"
    /\ returned.op = "none"
    /\ returned' = [op |-> call.op, result |-> shorten_name_if_needed(call.name, call.max_length)]
    /\ UNCHANGED <<call, rdp_vars, walk_vars, client_vars, session_vars, model_vars, neuron_vars, endpoint_vars, view_vars>>

\* The same call is made again.
CallShortenNameAgain ==
    /\ call.op = "shorten_name_if_needed"
    /\ returned.op # "none"
    /\ returned' = [op |-> call.op, result |-> shorten_name_if_needed(call.name, call.max_length),
                    before |-> returned.result]
    /\ UNCHANGED <<call, rdp_vars, walk_vars, client_vars, session_vars, model_vars, neuron_vars, endpoint_vars, view_vars>>

NextName == CallShortenName \/ CallShortenNameAgain

SpecName == InitName /\ [][NextName]_vars

-----------------------------------------------------------------------------
(* Specification of the readiness wait: wait_till_blender_is_ready(timeout) *)
(* runs while the endpoint comes up and goes down as it likes.              *)

\* Longest timeout drawn, in seconds.
MaxTimeout == 4

InitWait ==
    /\ \E timeout \in -1..MaxTimeout :
           call = [op |-> "wait_till_blender_is_ready", timeout |-> timeout]
    /\ returned = NoCall
    /\ containers = <<>>
    /\ last_returned = <<>>
    /\ view = [pc |-> "idle"]
    /\ answered = 0
    /\ netcons = <<>>
    /\ include = [morphology |-> TRUE, connections |-> TRUE, activity |-> TRUE]
    /\ connections = <<>>
    /\ connection_data = [has_synapses |-> FALSE, cells |-> [keys |-> <<>>, vals |-> <<>>]]
    /\ blender_ready \in BOOLEAN
    /\ connectionStatus = "---"
    /\ wait = [pc |-> "while", seconds_passed |-> 0]
    /\ secs = <<>>
    /\ walk_spherize = FALSE
    /\ walk_result = [op |-> "none"]
    /\ rdp_points = <<>>
    /\ rdp_epsilon = activity_simplification_tolerance
    /\ rdp_result = [err |-> "pending"]
    /\ simplify_result = [err |-> "pending"]
    /\ groups = <<>>
    /\ now = 0
    /\ volt = 0
    /\ sent = <<>>
    /\ sent_groups = <<>>
    /\ raised = "none"

\* The endpoint comes up or goes down while the client waits.
BlenderChanges ==
    /\ wait.pc \in {"while", "sleep", "if", "done"}
    /\ blender_ready' = ~blender_ready
    /\ UNCHANGED <<connectionStatus, wait, rdp_vars, walk_vars, client_vars, call_vars, model_vars, neuron_vars, endpoint_vars, view_vars>>

\* while not self.is_blender_ready() and seconds_passed <= timeout
WaitTest ==
    /\ wait.pc = "while"
    /\ LET ping == is_blender_ready(blender_ready)
       IN  /\ connectionStatus' = ping.connectionStatus
           /\ wait' = [wait EXCEPT !.pc = IF ~ping.result /\ wait.seconds_passed <= call.timeout
                                          THEN "sleep"
                                          ELSE "if"]
    /\ sent' = Append(sent, Ping(blender_ready))
    /\ answered' = IF blender_ready THEN answered + 1 ELSE answered
    /\ UNCHANGED <<blender_ready, rdp_vars, secs, walk_spherize, walk_result, groups, now, volt,
                   sent_groups, raised, call_vars, model_vars, neuron_vars, view_vars>>

\* sleep(1); seconds_passed += 1
WaitSleep ==
    /\ wait.pc = "sleep"
    /\ wait' = [pc |-> "while", seconds_passed |-> wait.seconds_passed + 1]
    /\ UNCHANGED <<blender_ready, connectionStatus, rdp_vars, walk_vars, client_vars, call_vars, model_vars, neuron_vars, endpoint_vars, view_vars>>

\* if self.is_blender_ready(): return, else: raise Exception(...)
WaitEnd ==
    /\ wait.pc = "if"
    /\ LET ping == is_blender_ready(blender_ready)
       IN  /\ connectionStatus' = ping.connectionStatus
           /\ returned' = [op |-> "wait_till_blender_is_ready",
                           err |-> IF ping.result THEN "none" ELSE "Exception"]
    /\ wait' = [wait EXCEPT !.pc = "done"]
    /\ sent' = Append(sent, Ping(blender_ready))
    /\ answered' = IF blender_ready THEN answered + 1 ELSE answered
    /\ UNCHANGED <<blender_ready, call, rdp_vars, secs, walk_spherize, walk_result, groups, now,
                   volt, sent_groups, raised, model_vars, neuron_vars, view_vars>>

NextWait == BlenderChanges \/ WaitTest \/ WaitSleep \/ WaitEnd

SpecWait == InitWait /\ [][NextWait]_vars

-----------------------------------------------------------------------------
(* Specification of the transmission session: on a model with its groups    *)
(* and connections one of gather_group_coords, send_cons, send_model and    *)
(* to_blender is called, the endpoint coming up and going down during       *)
(* to_blender.                                                              *)

\* Longest list of connections drawn.
MaxCons == 2

\* timeout=10
DefaultTimeout == 10

\* One cell of two roots: a soma whose first point has diameter 0.6 um, less
\* than 7/8 of its length 0.8 um, and a dendrite.
TaperCells ==
    <<Section(1, "taper", Cell0, <<>>),
      Section(2, "dend", Cell0, <<>>)>>

\* The connections drawn, on the sections of TwoCells: section 3 has no 3D
\* point until define_shape is run on it.
DrawnCons ==
    {NetCon("section", 1, 1, "located", 4, 2),
     NetCon("located", 2, 0, "located", 3, 1),
     NetCon("artificial", 1, 0, "located", 4, 0),
     NetCon("none", 1, 0, "located", 4, 0),
     NetCon("located", 1, 2, "none", 1, 0),
     NetCon("section", 4, 1, "artificial", 1, 0),
     NetCon("located", 1, 0, "unlocated", 1, 0),
     NetCon("unlocated", 1, 0, "none", 1, 0)}

ConsLists == UNION {[1..n -> DrawnCons] : n \in 0..MaxCons}

NoSynapses == [has_synapses |-> FALSE, cells |-> EmptyActivity]

Synapses == [has_synapses |-> TRUE, cells |-> EmptyActivity]

AllIncluded == [morphology |-> TRUE, connections |-> TRUE, activity |-> TRUE]

Includes == [morphology : BOOLEAN, connections : BOOLEAN, activity : BOOLEAN]

\* A group that has collected once.
Collected1(group, S) == collect_group(S, group, 0, 1).group

\* Samples in the longest series drawn.
MaxSamples == 16

\* The membrane potential at the i-th collection of a simulation whose
\* potential swings further at every sample: -1, 2, -3, 4, ...
Sawtooth(i) == IF i % 2 = 0 THEN i ELSE -i

\* A group that has collected at the times k-1, ..., n-1, the simulation
\* holding Sawtooth(i) at the i-th of them.
RECURSIVE CollectedSawtooth(_, _, _, _)
CollectedSawtooth(group, S, k, n) ==
    IF k > n
    THEN group
    ELSE CollectedSawtooth(collect_group(S, group, k - 1, Sawtooth(k)).group, S, k + 1, n)

\* The clients drawn for send_model and to_blender: nothing set up; a group
\* with activity and the default connections; a group of the cell with the
\* tapering soma; connections assigned by the user; a group with a long
\* swinging series and a group that collects once.
DrawnClients ==
    {[secs |-> TwoCells, groups |-> <<>>, connections |-> <<>>,
      connection_data |-> NoSynapses,
      netcons |-> <<NetCon("section", 1, 1, "located", 4, 2),
                    NetCon("none", 1, 0, "located", 4, 0)>>],
     [secs |-> TwoCells,
      groups |-> <<Collected1(CellGroup(NameA, <<1, 2>>, "Section"), TwoCells),
                   CellGroup(NameB, <<4>>, "Cell")>>,
      connections |-> <<NetCon("section", 1, 1, "located", 4, 2)>>,
      connection_data |-> Synapses,
      netcons |-> <<NetCon("section", 1, 1, "located", 4, 2)>>],
     [secs |-> TaperCells, groups |-> <<CellGroup(NameA, <<2, 1>>, "Cell")>>,
      connections |-> <<>>, connection_data |-> NoSynapses, netcons |-> <<>>],
     [secs |-> TwoCells, groups |-> <<>>,
      connections |-> <<NetCon("section", 1, 1, "located", 4, 2)>>,
      connection_data |-> NoSynapses,
      netcons |-> <<NetCon("section", 1, 1, "located", 4, 2)>>],
     [secs |-> TwoCells,
      groups |-> <<CollectedSawtooth(CellGroup(NameA, <<1>>, "Section"), TwoCells, 1, MaxSamples),
                   Collected1(CellGroup(NameB, <<4>>, "Cell"), TwoCells)>>,
      connections |-> <<>>, connection_data |-> Synapses, netcons |-> <<>>]}

\* The groups drawn for gather_group_coords.
DrawnGathers ==
    {[secs |-> TwoCells, cells |-> cells] : cells \in {<<1, 2, 4>>, <<1, 4, 2>>, <<4>>, <<>>}}
    \cup {[secs |-> MixedCell, cells |-> <<1>>],
          [secs |-> TaperCells, cells |-> <<2, 1>>],
          [secs |-> TaperCells, cells |-> <<1, 2>>]}

\* The parts of the state no method of the session reads.
SessionRest ==
    /\ returned = NoCall
    /\ containers = <<>>
    /\ last_returned = <<>>
    /\ view = [pc |-> "idle"]
    /\ answered = 0
    /\ connectionStatus = "---"
    /\ sent = <<>>
    /\ sent_groups = <<>>
    /\ raised = "none"
    /\ now = 0
    /\ volt = 0
    /\ walk_spherize = FALSE
    /\ walk_result = [op |-> "none"]
    /\ rdp_points = <<>>
    /\ rdp_epsilon = activity_simplification_tolerance
    /\ rdp_result = [err |-> "pending"]
    /\ simplify_result = [err |-> "pending"]

InitGather ==
    /\ call = [op |-> "gather_group_coords"]
    /\ \E drawn \in DrawnGathers, spherize \in BOOLEAN :
           /\ secs = drawn.secs
           /\ groups = <<[CellGroup(NameA, drawn.cells, "Cell")
                             EXCEPT !.spherize_soma_if_DeqL = spherize]>>
    /\ connections = <<>>
    /\ connection_data = NoSynapses
    /\ netcons = <<>>
    /\ include = AllIncluded
    /\ blender_ready = TRUE
    /\ wait = [pc |-> "idle", seconds_passed |-> 0]

InitCons ==
    /\ call = [op |-> "send_cons"]
    /\ secs \in {TwoCells, DefineShapes(TwoCells, <<3>>)}
    /\ groups = <<>>
    /\ connections \in ConsLists
    /\ connection_data \in {NoSynapses, Synapses}
    /\ netcons = connections
    /\ include = AllIncluded
    /\ blender_ready \in BOOLEAN
    /\ wait = [pc |-> "idle", seconds_passed |-> 0]

InitModel ==
    /\ \/ call = [op |-> "send_model"] /\ wait = [pc |-> "idle", seconds_passed |-> 0]
       \/ call = [op |-> "send_activity"] /\ wait = [pc |-> "idle", seconds_passed |-> 0]
       \/ /\ \E color_unique_names \in BOOLEAN :
                 call = [op |-> "to_blender", timeout |-> DefaultTimeout,
                         color_unique_names |-> color_unique_names]
          /\ wait = [pc |-> "while", seconds_passed |-> 0]
    /\ \E drawn \in DrawnClients :
           /\ secs = drawn.secs
           /\ groups = drawn.groups
           /\ connections = drawn.connections
           /\ connection_data = drawn.connection_data
           /\ netcons = drawn.netcons
    /\ include \in Includes
    /\ blender_ready \in BOOLEAN

InitSession == SessionRest /\ (InitGather \/ InitCons \/ InitModel)

\* The requests the endpoint answers before it stops answering, a call of a
\* method being made: none when it is down, and MaxAnswers when it outlasts
\* the call.
MaxAnswers == 12

Answers == IF blender_ready THEN 1..MaxAnswers ELSE {0}

\* self, as a method finds it.
Client(answers) ==
    [secs |-> secs, groups |-> groups, connections |-> connections,
     connection_data |-> connection_data, netcons |-> netcons, include |-> include,
     ready |-> blender_ready, answers |-> answers, connectionStatus |-> connectionStatus,
     calls |-> sent, answered |-> answered, err |-> "none"]

\* self and the endpoint, as a method leaves them.
Leaves(C) ==
    /\ secs' = C.secs
    /\ groups' = C.groups
    /\ connections' = C.connections
    /\ connection_data' = C.connection_data
    /\ connectionStatus' = C.connectionStatus
    /\ blender_ready' = (C.answers > 0)
    /\ answered' = C.answered
    /\ sent' = C.calls
    /\ raised' = C.err

CallGatherGroupCoords ==
    /\ call.op = "gather_group_coords"
    /\ returned.op = "none"
    /\ LET gathered == gather_group_coords(secs, groups[1])
       IN  /\ groups' = [groups EXCEPT ![1] = gathered.group]
           /\ secs' = DefineShapes(secs, gathered.seen)
           /\ raised' = gathered.err
           /\ returned' = [op |-> call.op, err |-> gathered.err]
    /\ UNCHANGED <<call, rdp_vars, walk_spherize, walk_result, now, volt, sent, sent_groups,
                   session_vars, model_vars, neuron_vars, endpoint_vars, view_vars>>

CallSendCons ==
    /\ call.op = "send_cons"
    /\ returned.op = "none"
    /\ \E answers \in Answers :
           /\ Leaves(client_send_cons(Client(answers)))
           /\ returned' = [op |-> call.op, err |-> client_send_cons(Client(answers)).err]
    /\ UNCHANGED <<call, rdp_vars, walk_spherize, walk_result, now, volt, sent_groups,
                   wait, include, neuron_vars, view_vars>>

CallSendModel ==
    /\ call.op = "send_model"
    /\ returned.op = "none"
    /\ \E answers \in Answers :
           /\ Leaves(send_model(Client(answers)))
           /\ returned' = [op |-> call.op, err |-> send_model(Client(answers)).err]
    /\ UNCHANGED <<call, rdp_vars, walk_spherize, walk_result, now, volt, sent_groups,
                   wait, include, neuron_vars, view_vars>>

CallSendActivity ==
    /\ call.op = "send_activity"
    /\ returned.op = "none"
    /\ \E answers \in Answers :
           /\ Leaves(client_send_activity(Client(answers)))
           /\ returned' = [op |-> call.op, err |-> client_send_activity(Client(answers)).err]
    /\ UNCHANGED <<call, rdp_vars, walk_spherize, walk_result, now, volt, sent_groups,
                   wait, include, neuron_vars, view_vars>>

\* to_blender: self.enqueue_method("clear"), once the wait has returned.
ToBlenderClear ==
    /\ call.op = "to_blender"
    /\ wait.pc = "done"
    /\ returned.err = "none"
    /\ \E answers \in Answers :
           /\ Leaves(clear_scene(Client(answers)))
           /\ wait' = [wait EXCEPT !.pc = IF answers > 0 THEN "send_model" ELSE "raised"]
           /\ returned' = IF answers > 0 THEN returned
                          ELSE [op |-> call.op, err |-> clear_scene(Client(answers)).err]
    /\ UNCHANGED <<call, rdp_vars, walk_spherize, walk_result, now, volt, sent_groups,
                   include, neuron_vars, view_vars>>

\* to_blender from self.send_model() to its end.
ToBlenderSend ==
    /\ call.op = "to_blender"
    /\ wait.pc = "send_model"
    /\ \E answers \in Answers :
           /\ Leaves(to_blender_send(Client(answers), call.color_unique_names))
           /\ returned' = [op |-> call.op,
                           err |-> to_blender_send(Client(answers), call.color_unique_names).err]
    /\ wait' = [wait EXCEPT !.pc = "returned"]
    /\ UNCHANGED <<call, rdp_vars, walk_spherize, walk_result, now, volt, sent_groups,
                   include, neuron_vars, view_vars>>

\* The endpoint comes up or goes down between the steps of to_blender.
BlenderChangesInSession ==
    /\ wait.pc \in {"while", "sleep", "if", "done", "send_model"}
    /\ blender_ready' = ~blender_ready
    /\ UNCHANGED <<connectionStatus, wait, rdp_vars, walk_vars, client_vars, call_vars,
                   model_vars, neuron_vars, endpoint_vars, view_vars>>

NextSession ==
    \/ CallGatherGroupCoords
    \/ CallSendCons
    \/ CallSendModel
    \/ CallSendActivity
    \/ BlenderChangesInSession
    \/ WaitTest
    \/ WaitSleep
    \/ WaitEnd
    \/ ToBlenderClear
    \/ ToBlenderSend

SpecSession == InitSession /\ [][NextSession]_vars

-----------------------------------------------------------------------------
(* The Blender side: CurveContainer and SectionObjectView.  A call of the   *)
(* Blender library returns or raises: ok tells which.                       *)

\* CurveContainer.__init__: the container is not linked, and its object has
\* no parent (0).  made tells a container from the lack of one.
CurveContainer ==
    [made |-> TRUE, linked |-> FALSE, parent |-> 0, removed |-> FALSE]

\* No container is held for the section.
NoContainer ==
    [made |-> FALSE, linked |-> FALSE, parent |-> 0, removed |-> FALSE]

\* link(): the object is linked to the scene, then the flag is set.
link(container, ok) ==
    IF ok
    THEN [err |-> "none", container |-> [container EXCEPT !.linked = TRUE]]
    ELSE [err |-> "RuntimeError", container |-> container]

\* unlink(): the object is unlinked from the scene, then the flag is reset.
unlink(container, ok) ==
    IF ok
    THEN [err |-> "none", container |-> [container EXCEPT !.linked = FALSE]]
    ELSE [err |-> "RuntimeError", container |-> container]

\* remove(): self.unlink(), then the materials, the curve and the object are
\* removed.  unlinked tells whether the call of unlink() has returned.
remove(container, ok_unlink, ok_remove) ==
    IF unlink(container, ok_unlink).err # "none"
    THEN [err |-> unlink(container, ok_unlink).err, unlinked |-> FALSE,
          container |-> container]
    ELSE IF ok_remove
    THEN [err |-> "none", unlinked |-> TRUE,
          container |-> [unlink(container, ok_unlink).container EXCEPT !.removed = TRUE]]
    ELSE [err |-> "RuntimeError", unlinked |-> TRUE,
          container |-> unlink(container, ok_unlink).container]

\* As set_parent_object, raising only when neither container is linked.
set_parent_object_EitherLinked(C, child, parent_container, ok) ==
    IF ~C[child].linked /\ ~C[parent_container].linked
    THEN [err |-> "Exception", containers |-> C]
    ELSE [err |-> IF ok THEN "none" ELSE "ValueError",
          containers |-> [C EXCEPT ![child].parent = parent_container]]

\* child.set_parent_object(parent_container), the containers C held by the
\* hash of their sections: the parent is assigned, then the inverse of the
\* parent's matrix is taken, which returns (ok) or raises ValueError.
set_parent_object(C, child, parent_container, ok) ==
    IF ~C[child].linked \/ ~C[parent_container].linked
    THEN [err |-> "Exception", containers |-> C]
    ELSE [err |-> IF ok THEN "none" ELSE "ValueError",
          containers |-> [C EXCEPT ![child].parent = parent_container]]

\* create_section_container(root, include_children=False, origin_type): a
\* container of the section alone is held under the hash of the section.
create_section_container(C, s) == [C EXCEPT ![s] = CurveContainer]

\* create_container_for_each_section(root), and its loop over root.children
\* from the i-th child on.
RECURSIVE create_container_for_each_section(_, _, _), create_for_children(_, _, _, _)
create_container_for_each_section(S, C, root) ==
    create_for_children(S, create_section_container(C, root), S[root].children, 1)

create_for_children(S, C, children, i) ==
    IF i > Len(children)
    THEN C
    ELSE create_for_children(S, create_container_for_each_section(S, C, children[i]),
                             children, i + 1)

\* The loop of show over self.group.roots.values() from the i-th root on.
RECURSIVE create_for_roots(_, _, _, _)
create_for_roots(S, C, roots, i) ==
    IF i > Len(roots)
    THEN C
    ELSE create_for_roots(S, create_container_for_each_section(S, C, roots[i]), roots, i + 1)

\* link_containers(): every container held is linked, in the order of the
\* hashes, from the i-th on.
RECURSIVE link_containers(_, _, _)
link_containers(C, i, ok) ==
    IF i > Len(C)
    THEN [err |-> "none", containers |-> C]
    ELSE IF ~C[i].made
    THEN link_containers(C, i + 1, ok)
    ELSE IF link(C[i], ok).err # "none"
    THEN [err |-> link(C[i], ok).err, containers |-> C]
    ELSE link_containers([C EXCEPT ![i] = link(C[i], ok).container], i + 1, ok)

\* set_childrens_parent(parent_sec): the first loop over
\* parent_sec.children, from the i-th child on, then the second.
RECURSIVE set_childrens_parent(_, _, _, _), set_parent_of_children(_, _, _, _, _),
          after_set_parent(_, _, _, _, _, _), recurse_into_children(_, _, _, _, _)
set_childrens_parent(S, C, parent_sec, ok) ==
    set_parent_of_children(S, C, parent_sec, 1, ok)

set_parent_of_children(S, C, parent_sec, i, ok) ==
    IF i > Len(S[parent_sec].children)
    THEN recurse_into_children(S, C, parent_sec, 1, ok)
    ELSE after_set_parent(S, C, parent_sec, i, ok,
                          set_parent_object(C, S[parent_sec].children[i], parent_sec, ok))

after_set_parent(S, C, parent_sec, i, ok, set) ==
    IF set.err # "none"
    THEN set
    ELSE set_parent_of_children(S, set.containers, parent_sec, i + 1, ok)

recurse_into_children(S, C, parent_sec, i, ok) ==
    IF i > Len(S[parent_sec].children)
    THEN [err |-> "none", containers |-> C]
    ELSE LET r == set_childrens_parent(S, C, S[parent_sec].children[i], ok)
         IN  IF r.err # "none"
             THEN r
             ELSE recurse_into_children(S, r.containers, parent_sec, i + 1, ok)

\* parent_containers(): the loop over self.group.roots.values() from the
\* i-th root on.
RECURSIVE parent_containers(_, _, _, _, _)
parent_containers(S, C, roots, i, ok) ==
    IF i > Len(roots)
    THEN [err |-> "none", containers |-> C]
    ELSE LET r == set_childrens_parent(S, C, roots[i], ok)
         IN  IF r.err # "none"
             THEN r
             ELSE parent_containers(S, r.containers, roots, i + 1, ok)

-----------------------------------------------------------------------------
(* Specification of the view: show is run on a group, then the containers   *)
(* it made are linked, unlinked, removed and parented by their callers.     *)

\* The recording granularities drawn.
Granularities == {"Section", "Cell", "Segment", "Group"}

\* Sections of two roots: a soma with a dendrite, and a lone axon.
ViewCell ==
    <<Section(1, "sphere", Cell0, <<2>>),
      Section(2, "dend", Cell0, <<>>),
      Section(3, "dend", Cell0, <<>>)>>

InitView ==
    /\ secs \in {MixedCell, ViewCell}
    /\ \E granularity \in Granularities :
           view = [pc |-> "show", recording_granularity |-> granularity]
    /\ containers = [s \in 1..Len(secs) |-> NoContainer]
    /\ last_returned = [s \in 1..Len(secs) |-> "none"]
    /\ call = [op |-> "show"]
    /\ returned = NoCall
    /\ rdp_points = <<>>
    /\ rdp_epsilon = activity_simplification_tolerance
    /\ rdp_result = [err |-> "pending"]
    /\ simplify_result = [err |-> "pending"]
    /\ walk_spherize = FALSE
    /\ walk_result = [op |-> "none"]
    /\ groups = <<>>
    /\ now = 0
    /\ volt = 0
    /\ sent = <<>>
    /\ sent_groups = <<>>
    /\ raised = "none"
    /\ answered = 0
    /\ netcons = <<>>
    /\ include = [morphology |-> TRUE, connections |-> TRUE, activity |-> TRUE]
    /\ connections = <<>>
    /\ connection_data = [has_synapses |-> FALSE, cells |-> [keys |-> <<>>, vals |-> <<>>]]
    /\ blender_ready = TRUE
    /\ connectionStatus = "---"
    /\ wait = [pc |-> "idle", seconds_passed |-> 0]

\* The parts of the state the view does not touch.
ViewRest ==
    UNCHANGED <<rdp_vars, walk_vars, client_vars, call, session_vars, model_vars,
                neuron_vars, endpoint_vars>>

\* show: if self.group.recording_granularity != "Section": raise
ShowTest ==
    /\ view.pc = "show"
    /\ IF view.recording_granularity # "Section"
       THEN /\ view' = [view EXCEPT !.pc = "raised"]
            /\ returned' = [op |-> "show", err |-> "NotImplementedError"]
       ELSE /\ view' = [view EXCEPT !.pc = "create"]
            /\ returned' = returned
    /\ UNCHANGED <<containers, last_returned>>
    /\ ViewRest

\* show: the loop that makes a container for each section.
ShowCreate ==
    /\ view.pc = "create"
    /\ containers' = create_for_roots(secs, containers, allroots(secs), 1)
    /\ view' = [view EXCEPT !.pc = "link"]
    /\ UNCHANGED <<last_returned, returned>>
    /\ ViewRest

\* show: self.link_containers()
ShowLink ==
    /\ view.pc = "link"
    /\ \E ok \in BOOLEAN :
           LET linked == link_containers(containers, 1, ok)
           IN  /\ containers' = linked.containers
               /\ last_returned' = [s \in 1..Len(containers) |->
                                       IF linked.containers[s].linked
                                       THEN "link"
                                       ELSE last_returned[s]]
               /\ view' = [view EXCEPT !.pc = IF linked.err = "none" THEN "parent" ELSE "raised"]
               /\ returned' = IF linked.err = "none" THEN returned
                              ELSE [op |-> "show", err |-> linked.err]
    /\ ViewRest

\* show: self.parent_containers()
ShowParent ==
    /\ view.pc = "parent"
    /\ \E ok \in BOOLEAN :
           LET parented == parent_containers(secs, containers, allroots(secs), 1, ok)
           IN  /\ containers' = parented.containers
               /\ view' = [view EXCEPT !.pc = IF parented.err = "none" THEN "done" ELSE "raised"]
               /\ returned' = [op |-> "show", err |-> parented.err]
    /\ UNCHANGED last_returned
    /\ ViewRest

\* A caller of the view's containers calls link() of one of them.
Link(c) ==
    /\ view.pc = "done"
    /\ containers[c].made
    /\ \E ok \in BOOLEAN :
           /\ containers' = [containers EXCEPT ![c] = link(containers[c], ok).container]
           /\ last_returned' = IF link(containers[c], ok).err = "none"
                               THEN [last_returned EXCEPT ![c] = "link"]
                               ELSE last_returned
           /\ returned' = [op |-> "link", err |-> link(containers[c], ok).err]
    /\ UNCHANGED view
    /\ ViewRest

Unlink(c) ==
    /\ view.pc = "done"
    /\ containers[c].made
    /\ \E ok \in BOOLEAN :
           /\ containers' = [containers EXCEPT ![c] = unlink(containers[c], ok).container]
           /\ last_returned' = IF unlink(containers[c], ok).err = "none"
                               THEN [last_returned EXCEPT ![c] = "unlink"]
                               ELSE last_returned
           /\ returned' = [op |-> "unlink", err |-> unlink(containers[c], ok).err]
    /\ UNCHANGED view
    /\ ViewRest

Remove(c) ==
    /\ view.pc = "done"
    /\ containers[c].made
    /\ \E ok_unlink \in BOOLEAN, ok_remove \in BOOLEAN :
           LET removed == remove(containers[c], ok_unlink, ok_remove)
           IN  /\ containers' = [containers EXCEPT ![c] = removed.container]
               /\ last_returned' = IF removed.err = "none"
                                   THEN [last_returned EXCEPT ![c] = "remove"]
                                   ELSE IF removed.unlinked
                                   THEN [last_returned EXCEPT ![c] = "unlink"]
                                   ELSE last_returned
               /\ returned' = [op |-> "remove", err |-> removed.err]
    /\ UNCHANGED view
    /\ ViewRest

SetParentObject(c, p) ==
    /\ view.pc = "done"
    /\ containers[c].made
    /\ containers[p].made
    /\ c # p
    /\ \E ok \in BOOLEAN :
           /\ containers' = set_parent_object(containers, c, p, ok).containers
           /\ returned' = [op |-> "set_parent_object",
                           err |-> set_parent_object(containers, c, p, ok).err]
    /\ UNCHANGED <<view, last_returned>>
    /\ ViewRest

NextView ==
    \/ ShowTest
    \/ ShowCreate
    \/ ShowLink
    \/ ShowParent
    \/ \E c \in 1..Len(containers) : Link(c)
    \/ \E c \in 1..Len(containers) : Unlink(c)
    \/ \E c \in 1..Len(containers) : Remove(c)
    \/ \E c \in 1..Len(containers), p \in 1..Len(containers) : SetParentObject(c, p)

SpecView == InitView /\ [][NextView]_vars

-----------------------------------------------------------------------------
(* Properties of the collection and the dispatch of activity (Spec) *)

\* The calls of the last send that carry series of the group named.
CallsOf(name) == SelectSeq(sent, LAMBDA dispatched : dispatched.of_group = name)

\* The names of the records of the first n of the calls, in order.
RECURSIVE RecordNames(_, _)
RecordNames(calls, n) ==
    IF n = 0
    THEN <<>>
    ELSE RecordNames(calls, n - 1) \o [j \in 1..Len(calls[n].args) |-> calls[n].args[j].name]

\* C1: the calls send_activity dispatches for a group never carry more than
\* 1000 records, and every call but the group's last carries exactly 1000:
\* n series go out as full calls of 1000 and one call with the rest.
C1_CallsCarryAtMostLimit ==
    \A c \in 1..Len(sent) :
        /\ Len(sent[c].args) <= BatchLimit
        /\ (c < Len(sent) /\ sent[c + 1].of_group = sent[c].of_group)
              => Len(sent[c].args) = BatchLimit

\* C2: for each group holding a collected_activity map when send_activity
\* ran, the payloads of its calls, concatenated in the order of dispatch,
\* name every key of the map exactly once in insertion order, and the last
\* payload of the group is dispatched whatever its size.
C2_EverySeriesSentOnceInOrder ==
    \A i \in 1..Len(sent_groups) :
        sent_groups[i].has_activity =>
            /\ Len(CallsOf(sent_groups[i].name)) >= 1
            /\ RecordNames(CallsOf(sent_groups[i].name), Len(CallsOf(sent_groups[i].name)))
                  = sent_groups[i].collected_activity.keys

\* C3: after any sequence of clear_activity and collect_group, at every
\* color level and with cells of several roots, every series of a group's
\* collected_activity is as long as its collection_times.
C3_SeriesAsLongAsTimes ==
    \A i \in 1..Len(groups) :
        \A k \in 1..Len(groups[i].collected_activity.keys) :
            Len(groups[i].collected_activity.vals[k]) = Len(groups[i].collection_times)

-----------------------------------------------------------------------------
(* Properties of the walks (SpecWalk) *)

\* The sections of the subtree of s.
RECURSIVE Subtree(_, _)
Subtree(S, s) ==
    {s} \cup UNION {Subtree(S, S[s].children[i]) : i \in 1..Len(S[s].children)}

\* Depth-first pre-order: a section, then the pre-order of each child's
\* subtree, the children in the order children() returns them.
RECURSIVE Preorder(_, _), PreorderOfEach(_, _, _)
Preorder(S, s) == <<s>> \o PreorderOfEach(S, S[s].children, 1)

PreorderOfEach(S, children, i) ==
    IF i > Len(children)
    THEN <<>>
    ELSE Preorder(S, children[i]) \o PreorderOfEach(S, children, i + 1)

SentName(sec) == shorten_name_if_needed(sec.name, MaxNameLength)

\* The series names collect_segments_recursive gives the sections of order.
RECURSIVE SegmentNames(_, _, _)
SegmentNames(S, order, k) ==
    IF k > Len(order)
    THEN <<>>
    ELSE [i \in 1..(Len(S[order[k]].pts) - 1) |->
             SentName(S[order[k]]) \o <<"[">> \o Str(i - 1) \o <<"]">>]
         \o SegmentNames(S, order, k + 1)

\* C4: each recursive walk visits every section of the root's subtree exactly
\* once, in depth-first pre-order, and get_cell_coords returns as many
\* records as the tree has sections.
C4_WalkVisitsPreorder ==
    LET order == Preorder(secs, 1)
    IN  /\ walk_result.op = "get_cell_coords" =>
               /\ walk_result.err = "none"
               /\ Len(walk_result.result) = Cardinality(Subtree(secs, 1))
               /\ [k \in 1..Len(walk_result.result) |-> walk_result.result[k].name]
                      = [k \in 1..Len(order) |-> SentName(secs[order[k]])]
        /\ (walk_result.op = "collect_section" /\ walk_result.recursive) =>
               /\ walk_result.activity.keys = [k \in 1..Len(order) |-> SentName(secs[order[k]])]
               /\ \A k \in 1..Len(order) : Len(walk_result.activity.vals[k]) = 1
        /\ walk_result.op = "collect_segments_recursive" =>
               /\ walk_result.seen = order
               /\ walk_result.activity.keys = SegmentNames(secs, order, 1)
               /\ \A k \in 1..Len(walk_result.activity.keys) :
                      Len(walk_result.activity.vals[k]) = 1

\* C9: after spherize_coords(sec_coords, length, steps) the first and the
\* last radius are 0, the record is marked spherical and it holds exactly
\* steps + 2 points, however many points it held before.
C9_SphereHasStepsPlusTwoPoints ==
    (walk_result.op = "spherize_coords" /\ walk_result.err = "none") =>
        /\ walk_result.sec_coords.radii[1] = 0
        /\ walk_result.sec_coords.radii[Len(walk_result.sec_coords.radii)] = 0
        /\ walk_result.sec_coords.spherical
        /\ Len(walk_result.sec_coords.radii) = walk_result.steps + 2
        /\ Len(walk_result.sec_coords.coords) = 3 * (walk_result.steps + 2)

\* The name holds "soma" in any mix of cases.
NamesSoma(name) ==
    \E i \in 1..(Len(name) - 3) :
        /\ name[i] \in {"s", "S"}
        /\ name[i + 1] \in {"o", "O"}
        /\ name[i + 2] \in {"m", "M"}
        /\ name[i + 3] \in {"a", "A"}

\* The flag is on, the name holds "soma" and |diam - L| < 0.1 um.
SphereCase(sec, flag) ==
    /\ flag
    /\ NamesSoma(sec.name)
    /\ sec.diam - sec.L \in {-1, 0, 1}

\* C10: get_cell_coords sends a section through the sphere transform exactly
\* when the flag is on, the section's name holds "soma" in any case and
\* |diam - L| < 0.1; the record of any other section keeps the section's
\* points and radii and is not marked spherical.  The walk stops only at a
\* section it sent through the transform.
C10_SpherizedIffSomaDeqL ==
    walk_result.op = "get_cell_coords" =>
        LET order == Preorder(secs, 1)
            n == Len(walk_result.result)
        IN  /\ n <= Len(order)
            /\ \A k \in 1..n :
                   LET sec == secs[order[k]]
                       rec == walk_result.result[k]
                   IN  /\ rec.spherical <=> SphereCase(sec, walk_spherize)
                       /\ ~SphereCase(sec, walk_spherize) =>
                              /\ rec.coords = FlatCoords(sec.pts)
                              /\ rec.radii = Radii(sec.diams)
            /\ walk_result.err = "none" => n = Len(order)
            /\ walk_result.err # "none" =>
                   /\ n < Len(order)
                   /\ SphereCase(secs[order[n + 1]], walk_spherize)

\* The flag is on and the walk returned: the root, the two-point section
\* "soma" with L = 10 um and diam = 2 um, kept its points, and a child
\* "soma" with L = diam became a sphere.
C10_Witness ==
    /\ walk_result.op = "get_cell_coords"
    /\ walk_result.err = "none"
    /\ walk_spherize
    /\ NamesSoma(secs[1].name) /\ secs[1].L = 200 /\ secs[1].diam = 40
    /\ Len(secs[1].pts) = 2
    /\ ~walk_result.result[1].spherical
    /\ walk_result.result[1].coords = <<0, 8, 0, 200, 8, 0>>
    /\ \E k \in 2..Len(walk_result.result) :
           /\ walk_result.result[k].spherical
           /\ Len(walk_result.result[k].radii) = DefaultSteps + 2

\* The sphere computation is degenerate on the section: at some step
\* radius^2 - dist_to_center^2 is negative and sqrt raises.
Degenerate(sec) ==
    spherize_coords(SecCoords(sec), sec.L, DefaultSteps).err = "ValueError"

\* C11: when the sphere computation is degenerate for a section the walk
\* does not raise: that section gets the non-spherical record of its own
\* points and the walk goes on over the remaining sections.
C11_DegenerateSphereIsSoftFailure ==
    walk_result.op = "get_cell_coords" =>
        LET order == Preorder(secs, 1)
        IN  /\ walk_result.err = "none"
            /\ Len(walk_result.result) = Len(order)
            /\ \A k \in 1..Len(order) :
                   (SphereCase(secs[order[k]], walk_spherize) /\ Degenerate(secs[order[k]])) =>
                       /\ ~walk_result.result[k].spherical
                       /\ walk_result.result[k].coords = FlatCoords(secs[order[k]].pts)
                       /\ walk_result.result[k].radii = Radii(secs[order[k]].diams)

-----------------------------------------------------------------------------
(* Properties of the simplifier (SpecRdp) *)

\* d <= epsilon for a squared distance d and a tolerance epsilon >= 0.
DistLeq(d, epsilon) ==
    d[1] * epsilon[2] * epsilon[2] <= epsilon[1] * epsilon[1] * d[2]

\* d < epsilon for a squared distance d and a tolerance epsilon >= 0.
DistLt(d, epsilon) ==
    d[1] * epsilon[2] * epsilon[2] < epsilon[1] * epsilon[1] * d[2]

\* out is the input taken at the strictly increasing places f, which keep the
\* first and the last place, and every place skipped between two kept ones
\* lies within epsilon of the line through them.
KeepsWithin(f, out, in, epsilon) ==
    /\ \A k \in 1..Len(out) : in[f[k]] = out[k]
    /\ \A k \in 1..(Len(out) - 1) : f[k] < f[k + 1]
    /\ f[1] = 1
    /\ f[Len(out)] = Len(in)
    /\ \A k \in 1..(Len(out) - 1) : \A j \in (f[k] + 1)..(f[k + 1] - 1) :
           DistLeq(point_line_distance(in[j], in[f[k]], in[f[k + 1]]), epsilon)

RdpCalled == rdp_result # Pending

SimplifyCalled == simplify_result # Pending

Xs(points) == [i \in 1..Len(points) |-> points[i][1]]

Ys(points) == [i \in 1..Len(points) |-> points[i][2]]

\* C5: for a non-empty input and epsilon > 0, rdp returns a subsequence of the
\* input, in order, that starts with the input's first point and ends with
\* its last, and every point it removed lies within epsilon of the line
\* through the two kept points around it.
C5_RdpKeepsShape ==
    (RdpCalled /\ Len(rdp_points) >= 1 /\ rdp_epsilon[1] > 0) =>
        /\ rdp_result.err = "none"
        /\ Len(rdp_result.pts) >= 1
        /\ rdp_result.pts[1] = rdp_points[1]
        /\ rdp_result.pts[Len(rdp_result.pts)] = rdp_points[Len(rdp_points)]
        /\ \E f \in [1..Len(rdp_result.pts) -> 1..Len(rdp_points)] :
               KeepsWithin(f, rdp_result.pts, rdp_points, rdp_epsilon)

\* C6: rdp(points, 0) returns the points it was given, unchanged.
C6_ZeroToleranceKeepsAll ==
    (RdpCalled /\ rdp_epsilon[1] = 0) =>
        /\ rdp_result.err = "none"
        /\ rdp_result.pts = rdp_points

\* C7: rdp (any tolerance > 0) and simplify_activity return a series of
\* length 0, 1 or 2 as it is, without raising.
C7_ShortSeriesAsIs ==
    /\ (RdpCalled /\ Len(rdp_points) <= 2 /\ rdp_epsilon[1] > 0) =>
           /\ rdp_result.err = "none"
           /\ rdp_result.pts = rdp_points
    /\ (SimplifyCalled /\ Len(rdp_points) <= 2) =>
           /\ simplify_result.err = "none"
           /\ simplify_result.times = Xs(rdp_points)
           /\ simplify_result.values = Ys(rdp_points)

\* Every interior point is nearer than epsilon to the line through the first
\* and the last point.
InteriorWithin(points, epsilon) ==
    \A j \in 2..(Len(points) - 1) :
        /\ epsilon[1] > 0
        /\ DistLt(point_line_distance(points[j], points[1], points[Len(points)]), epsilon)

\* C8: when every interior point is nearer than epsilon to the line through
\* the first and the last point, rdp returns exactly [first, last]; the
\* linear series 0..4 at tolerance 0.32 reduces to (0,0), (4,4).
C8_CollapseToEndpoints ==
    /\ (RdpCalled /\ Len(rdp_points) >= 1 /\ InteriorWithin(rdp_points, rdp_epsilon)) =>
           /\ rdp_result.err = "none"
           /\ rdp_result.pts = <<rdp_points[1], rdp_points[Len(rdp_points)]>>
    /\ (SimplifyCalled /\ rdp_points = LinearSeries) =>
           /\ simplify_result.err = "none"
           /\ simplify_result.times = <<0, 4>>
           /\ simplify_result.values = <<0, 4>>

-----------------------------------------------------------------------------
(* Properties of the name shortener (SpecName) *)

IsHex(c) == \E k \in 1..Len(HexDigits) : HexDigits[k] = c

\* C12: shorten_name_if_needed returns a name of at most max_length
\* characters as it is; of a longer name it returns a prefix of the name,
\* "#" and 16 hash characters, the same at every call; and what it returns
\* is never longer than max_length.
C12_ShortenedNameWithinMaxLength ==
    returned.op = "shorten_name_if_needed" =>
        LET n == Len(returned.result)
        IN  /\ Len(call.name) <= call.max_length => returned.result = call.name
            /\ Len(call.name) > call.max_length =>
                   /\ n >= 17
                   /\ SubSeq(returned.result, 1, n - 17) = SubSeq(call.name, 1, n - 17)
                   /\ returned.result[n - 16] = "#"
                   /\ \A k \in (n - 15)..n : IsHex(returned.result[k])
            /\ "before" \in DOMAIN returned => returned.result = returned.before
            /\ n <= call.max_length

-----------------------------------------------------------------------------
(* Properties of the collection levels (Spec) *)

\* The roots' subtrees in pre-order, one root after the other.
RECURSIVE PreorderOfRoots(_, _, _)
PreorderOfRoots(S, roots, i) ==
    IF i > Len(roots)
    THEN <<>>
    ELSE Preorder(S, roots[i]) \o PreorderOfRoots(S, roots, i + 1)

\* C13: at Segment level each collect_group invocation records, for every
\* section with N 3D points under the group's roots, N-1 samples, appended
\* to the series <shortened section name>[i] for i = 0 .. N-2: after c
\* invocations the series are those names, section after section, and each
\* holds c samples.
C13_SegmentLevelSamplesPerPointPair ==
    \A g \in 1..Len(groups) :
        (groups[g].color_level = "Segment" /\ Len(groups[g].collection_times) >= 1) =>
            LET order == PreorderOfRoots(secs, groups[g].cells, 1)
            IN  /\ groups[g].collected_activity.keys = SegmentNames(secs, order, 1)
                /\ \A k \in 1..Len(groups[g].collected_activity.keys) :
                       Len(groups[g].collected_activity.vals[k]) = Len(groups[g].collection_times)

\* The group of the cell of three sections has collected once at Segment
\* level: two series for the root of 3 points, none for the child of 1
\* point, one under the shortened name of the child of 2 points.
C13_Witness ==
    /\ secs = MixedCell
    /\ groups[1].color_level = "Segment"
    /\ Len(groups[1].collection_times) = 1
    /\ Len(groups[1].collected_activity.keys) = 3
    /\ groups[1].collected_activity.keys[1] = <<"S", "o", "m", "a", "[", "0", "]", "[", "0", "]">>
    /\ groups[1].collected_activity.keys[2] = <<"S", "o", "m", "a", "[", "0", "]", "[", "1", "]">>
    /\ Len(groups[1].collected_activity.keys[3]) = MaxNameLength + 3
    /\ groups[1].collected_activity.keys[3][MaxNameLength - 16] = "#"

\* The cell names of the first n roots, each once, in the order met.
RECURSIVE CellNamesOf(_, _, _)
CellNamesOf(S, roots, n) ==
    IF n = 0
    THEN <<>>
    ELSE LET before == CellNamesOf(S, roots, n - 1)
         IN  IF \E k \in 1..Len(before) : before[k] = S[roots[n]].cell
             THEN before
             ELSE Append(before, S[roots[n]].cell)

\* C14: at Cell level each collect_group invocation samples the roots of the
\* group only, never a child section, and appends each sample to the series
\* named by the root's cell: after c invocations the series are the cells of
\* the roots and each holds c samples per root of that cell.
C14_CellLevelSamplesRootsOnly ==
    \A g \in 1..Len(groups) :
        groups[g].color_level = "Cell" =>
            LET roots == groups[g].cells
                activity == groups[g].collected_activity
                times == Len(groups[g].collection_times)
            IN  /\ times >= 1 => activity.keys = CellNamesOf(secs, roots, Len(roots))
                /\ \A k \in 1..Len(activity.keys) :
                       Len(activity.vals[k])
                           = times * Cardinality({r \in 1..Len(roots) :
                                                     secs[roots[r]].cell = activity.keys[k]})

\* The group of roots 1 and 2 of Cell[0] and root 4 of Cell[1] has collected
\* once at Cell level: section 3, a child of root 1, gave no sample.
C14_Witness ==
    /\ secs = TwoCells
    /\ Len(groups) = 1
    /\ groups[1].color_level = "Cell"
    /\ groups[1].cells = <<1, 2, 4>>
    /\ Len(groups[1].collection_times) = 1
    /\ groups[1].collected_activity.keys = <<Cell0, Cell1>>
    /\ Len(groups[1].collected_activity.vals[1]) = 2
    /\ Len(groups[1].collected_activity.vals[2]) = 1

\* The fields of a group clear_activity does not assign.
Settings(group) ==
    [name |-> group.name,
     cells |-> group.cells,
     collect_activity |-> group.collect_activity,
     frames_per_ms |-> group.frames_per_ms,
     spherize_soma_if_DeqL |-> group.spherize_soma_if_DeqL,
     color_level |-> group.color_level]

\* C15: clear_activity, run by finitialize at the start of each simulation
\* run, leaves every group with an empty collection_times and an empty
\* collected_activity and changes no other field of any group; so at any
\* time the samples a group holds were taken in the current run, at
\* ascending times up to h.t.
C15_ClearActivityEmptiesEveryGroup ==
    /\ [][Finitialize =>
             /\ Len(groups') = Len(groups)
             /\ \A g \in 1..Len(groups) :
                    /\ groups'[g].collection_times = <<>>
                    /\ groups'[g].collected_activity = EmptyActivity
                    /\ Settings(groups'[g]) = Settings(groups[g])]_vars
    /\ [](\A g \in 1..Len(groups) :
              /\ \A k \in 1..Len(groups[g].collection_times) :
                     groups[g].collection_times[k] = k - 1
              /\ Len(groups[g].collection_times) <= now + 1)

\* finitialize has run after a run whose series were sent: the calls of that
\* send hold samples, every group is empty and h.t is 0.
C15_Witness ==
    /\ now = 0
    /\ \E c \in 1..Len(sent) : Len(sent[c].args) >= 1
    /\ \E g \in 1..Len(groups) : groups[g].collect_activity
    /\ \A g \in 1..Len(groups) :
           /\ groups[g].collection_times = <<>>
           /\ groups[g].collected_activity = EmptyActivity

-----------------------------------------------------------------------------
(* Properties of the readiness wait (SpecWait) *)

\* C16: wait_till_blender_is_ready(timeout) sleeps 1 second between polls
\* and no more than timeout seconds in all; it returns only if the endpoint
\* answered a ping, and raises if the endpoint was not ready.
C16_WaitSleepsAtMostTimeout ==
    /\ wait.pc # "idle" => wait.seconds_passed <= Max(call.timeout, 0)
    /\ (returned.op = "wait_till_blender_is_ready" /\ returned.err = "none")
          => connectionStatus = "Ready"
    /\ (returned.op = "wait_till_blender_is_ready" /\ returned.err # "none")
          => connectionStatus = "Not Connected"

-----------------------------------------------------------------------------
(* Properties of the transmission session (SpecSession) *)

\* C17: when the ping fails as send_model is called, send_model raises
\* having made no request but the ping, created no default group and left
\* groups, connections and the activity they hold as they were.
C17_SendModelRaisesBeforeAnyCall ==
    [][((CallSendModel \/ ToBlenderSend) /\ ~blender_ready) =>
          /\ raised' = "Exception"
          /\ returned'.err = "Exception"
          /\ sent' = Append(sent, Ping(FALSE))
          /\ groups' = groups
          /\ connections' = connections
          /\ connection_data' = connection_data
          /\ secs' = secs]_vars

\* send_model was called on a client with no group, no connection and every
\* include flag on while the endpoint was down: it raised, the ping is the
\* only request and there is still no group.
C17_Witness ==
    /\ returned = [op |-> "send_model", err |-> "Exception"]
    /\ ~blender_ready
    /\ include = AllIncluded
    /\ sent = <<Ping(FALSE)>>
    /\ groups = <<>>
    /\ connections = <<>>
    /\ Len(netcons) = 2

\* The place of a method in a transmission session.
Rank(method) ==
    CASE method = "clear" -> 1
      [] method = "visualize_group" -> 2
      [] method = "create_cons" -> 3
      [] method = "set_segment_activities" -> 4
      [] method = "link_objects" -> 5
      [] method = "show_full_scene" -> 6
      [] method = "color_by_unique_materials" -> 7
      [] method = "set_render_params" -> 8

\* The requests of the session but the pings, in order.
Calls == SelectSeq(sent, LAMBDA request : request.method # "ping")

\* C18: in to_blender no request but ping is made before a ping has
\* answered; the requests are made in the order clear, visualize_group per
\* group, create_cons, set_segment_activities (each only with its include
\* flag on), link_objects, show_full_scene, color_by_unique_materials when
\* asked, and last set_render_params.
C18_ToBlenderCallsInOrder ==
    call.op = "to_blender" =>
        /\ \A i \in 1..Len(sent) :
               sent[i].method # "ping" => \E j \in 1..(i - 1) : sent[j] = Ping(TRUE)
        /\ \A i \in 1..Len(Calls) : \A j \in 1..Len(Calls) :
               i < j => Rank(Calls[i].method) <= Rank(Calls[j].method)
        /\ \A i \in 1..Len(Calls) :
               /\ Calls[i].method = "visualize_group" => include.morphology
               /\ Calls[i].method = "create_cons" => include.connections
               /\ Calls[i].method = "set_segment_activities" => include.activity
               /\ Calls[i].method = "color_by_unique_materials" => call.color_unique_names
               /\ Calls[i].method \in {"link_objects", "show_full_scene", "set_render_params"}
                      => i > 1 /\ Calls[1].method = "clear"
        /\ (returned.op = "to_blender" /\ returned.err = "none") =>
               /\ Calls[Len(Calls)].method = "set_render_params"
               /\ \E i \in 1..Len(Calls) : Calls[i].method = "link_objects"
               /\ \E i \in 1..Len(Calls) : Calls[i].method = "show_full_scene"

\* to_blender returned with every include flag on and the colors asked for:
\* the session has requests of every method.
C18_Witness ==
    /\ returned = [op |-> "to_blender", err |-> "none"]
    /\ include = AllIncluded
    /\ call.color_unique_names
    /\ \A method \in {"clear", "visualize_group", "create_cons", "set_segment_activities",
                       "link_objects", "show_full_scene", "color_by_unique_materials",
                       "set_render_params"} :
           \E i \in 1..Len(Calls) : Calls[i].method = method
    /\ \E i \in 1..Len(sent) : sent[i] = Ping(FALSE)

\* Both ends of the connection resolve to a segment.
Resolvable(con) == con.pre \in {"located", "section"} /\ con.post = "located"

\* A point process of the connection is in no section.
Unlocated(con) == con.pre = "unlocated" \/ con.post = "unlocated"

\* The indexes, from 1, of the connections with both ends resolvable.
ResolvableIndexes ==
    SelectSeq([i \in 1..Len(connections) |-> i], LAMBDA i : Resolvable(connections[i]))

\* The sections the resolvable connections end on have 3D points.
EndsHaveShape ==
    \A i \in 1..Len(connections) :
        Resolvable(connections[i]) =>
            /\ n3d(secs[connections[i].pre_sec]) > 0
            /\ n3d(secs[connections[i].post_sec]) > 0

\* C19: with the "Synapses" record set up, the endpoint up and 3D points in
\* the sections of the resolvable connections, send_cons does not raise
\* whatever end of a connection does not resolve to a segment; it makes one
\* create_cons request whose cells are the resolvable connections, each
\* keyed NetCon[i] by its index in self.connections, none included.
C19_SendConsSkipsUnresolvable ==
    (returned.op = "send_cons" /\ connection_data.has_synapses /\ blender_ready
        /\ EndsHaveShape) =>
        /\ returned.err = "none"
        /\ sent = <<CreateCons(connection_data.cells)>>
        /\ connection_data.cells.keys =
               [k \in 1..Len(ResolvableIndexes) |-> NetConName(ResolvableIndexes[k] - 1)]

\* The roots of the group that go under the cell name, in root order.
RootsNamed(group, name) ==
    SelectSeq(group.cells, LAMBDA root : cell_name(secs[root]) = name)

\* The names of the records of an entry, in order.
NamesOf(records) == [k \in 1..Len(records) |-> records[k].name]

\* The names the records of the sections listed bear.
NamesOfSections(sections) ==
    [k \in 1..Len(sections) |-> shorten_name_if_needed(secs[sections[k]].name, MaxNameLength)]

\* The number of records over all entries from the k-th on.
RECURSIVE RecordCount(_, _)
RecordCount(cell_data, k) ==
    IF k > Len(cell_data.vals)
    THEN 0
    ELSE Len(cell_data.vals[k]) + RecordCount(cell_data, k + 1)

\* C20: after gather_group_coords the cell names of the group's roots are
\* the keys of the group's cells; the entry of a cell name holds the records
\* of the subtrees of all its roots, root after root; and the records over
\* all entries are as many as the sections under the group's roots.
C20_GatherConcatenatesSameNamedRoots ==
    returned.op = "gather_group_coords" =>
        LET group == groups[1]
            cell_data == group.data_cells
        IN  /\ {cell_data.keys[k] : k \in 1..Len(cell_data.keys)}
                  = {cell_name(secs[group.cells[i]]) : i \in 1..Len(group.cells)}
            /\ \A k \in 1..Len(cell_data.keys) :
                   NamesOf(cell_data.vals[k])
                       = NamesOfSections(PreorderOfRoots(secs, RootsNamed(group, cell_data.keys[k]), 1))
            /\ RecordCount(cell_data, 1) = Len(PreorderOfRoots(secs, group.cells, 1))

\* A call of a top-level send operation.
Transmission == CallSendActivity \/ CallSendModel \/ ToBlenderClear \/ ToBlenderSend

\* C21: in a call of send_activity, send_model or to_blender the requests
\* made go after those made before; at most one of them is not answered,
\* the last one, so that the failed request is made once and none follows
\* it; and when one is not answered the call raises.
C21_FailedDispatchRaisesAndEndsTheSend ==
    [][Transmission =>
          /\ Len(sent') >= Len(sent)
          /\ SubSeq(sent', 1, Len(sent)) = sent
          /\ (Len(sent') - Len(sent)) <= (answered' - answered) + 1
          /\ (Len(sent') - Len(sent)) = (answered' - answered) + 1 =>
                 /\ raised' \in {"ConnectionError", "Exception"}
                 /\ returned'.op = call.op
                 /\ returned'.err = raised'
          /\ (Len(sent') - Len(sent)) = (answered' - answered) =>
                 raised' \notin {"ConnectionError", "Exception"}]_vars

\* send_activity raised at the second of its two batches: the first was
\* answered, the second was made once and is the last request.
C21_Witness ==
    /\ returned = [op |-> "send_activity", err |-> "ConnectionError"]
    /\ Len(sent) = 2
    /\ answered = 1
    /\ sent[1].method = "set_segment_activities"
    /\ sent[2].method = "set_segment_activities"
    /\ sent[1].of_group # sent[2].of_group

\* The series named is in the args of a set_segment_activities request
\* made for the group.
Dispatched(group, name) ==
    \E i \in 1..Len(sent) :
        /\ sent[i].method = "set_segment_activities"
        /\ sent[i].of_group = group.name
        /\ \E j \in 1..Len(sent[i].args) : sent[i].args[j].name = name

\* The reduction of the k-th series of the group succeeds.
Reduces(group, k) ==
    simplify_activity(group.collection_times, group.collected_activity.vals[k]).err = "none"

\* C22: after send_activity, every request answered and every group
\* holding a collected_activity map, each series whose reduction succeeds
\* has been dispatched, whether or not the reduction of another series
\* failed.
C22_ReducibleSeriesAreSent ==
    (returned.op = "send_activity" /\ answered = Len(sent)
        /\ \A g \in 1..Len(groups) : groups[g].has_activity) =>
        \A g \in 1..Len(groups) :
            \A k \in 1..Len(groups[g].collected_activity.keys) :
                Reduces(groups[g], k) =>
                    Dispatched(groups[g], groups[g].collected_activity.keys[k])

\* C23: when send_activity meets a group without a collected_activity map
\* it returns without raising: the groups before the first such group have
\* their calls, and neither that group nor any group after it has one.
C23_SendActivityReturnsAtGroupWithoutActivity ==
    \A i \in 1..Len(sent_groups) :
        (~sent_groups[i].has_activity
            /\ \A j \in 1..(i - 1) : sent_groups[j].has_activity) =>
            /\ raised = "none"
            /\ \A j \in 1..(i - 1) : Len(CallsOf(sent_groups[j].name)) >= 1
            /\ \A j \in i..Len(sent_groups) : CallsOf(sent_groups[j].name) = <<>>
            /\ \A c \in 1..Len(sent) :
                   \E j \in 1..(i - 1) : sent[c].of_group = sent_groups[j].name

\* send_activity has met a group without collected_activity before a group
\* that holds series: nothing was sent.
C23_Witness ==
    /\ Len(sent_groups) = 2
    /\ ~sent_groups[1].has_activity
    /\ sent_groups[2].has_activity
    /\ Len(sent_groups[2].collected_activity.keys) >= 1
    /\ sent = <<>>

-----------------------------------------------------------------------------
(* Properties of the recursion of rdp (SpecRdp) *)

\* The ranges of consecutive points: every call of rdp made for the input is
\* made on one of them.
Ranges(points) ==
    {SubSeq(points, i, j) : i \in 1..Len(points), j \in 1..Len(points)} \ {<<>>}

\* C24: for a non-empty input and epsilon > 0 rdp returns; whatever range
\* of the input it is called on, the index it splits at is an interior
\* index, 1 <= index <= len - 2, so that both calls it makes are on shorter
\* ranges; and its deepest frame is no deeper than the input is long.
C24_RdpRecursionBoundedByLength ==
    (RdpCalled /\ Len(rdp_points) >= 1 /\ rdp_epsilon[1] > 0) =>
        /\ rdp_result.err = "none"
        /\ rdp_result.depth <= Len(rdp_points)
        /\ \A range \in Ranges(rdp_points) :
               DistGeq(rdp_scan(range, 1, 0, <<0, 1>>).dmax, rdp_epsilon) =>
                   /\ rdp_scan(range, 1, 0, <<0, 1>>).index >= 1
                   /\ rdp_scan(range, 1, 0, <<0, 1>>).index <= Len(range) - 2
                   /\ Len(Slice(range, 0, rdp_scan(range, 1, 0, <<0, 1>>).index + 1)) < Len(range)
                   /\ Len(Slice(range, rdp_scan(range, 1, 0, <<0, 1>>).index, Len(range))) < Len(range)

\* rdp has split a series of MaxLen points and split a part of it again.
C24_Witness ==
    /\ RdpCalled
    /\ rdp_epsilon[1] > 0
    /\ Len(rdp_points) = MaxLen
    /\ rdp_result.err = "none"
    /\ rdp_result.depth = MaxLen - 1

-----------------------------------------------------------------------------
(* Properties of the frame of the callback and of the send (Spec) *)

\* C25: collect_group on group i leaves the number of groups and every
\* other group as they were, and of group i changes nothing but
\* collection_times and collected_activity, whether it returns or raises.
C25_CollectGroupChangesOnlyItsGroup ==
    [][\A i \in 1..Len(groups) :
          CollectGroup(i) =>
              /\ Len(groups') = Len(groups)
              /\ \A j \in 1..Len(groups) : j # i => groups'[j] = groups[j]
              /\ [groups'[i] EXCEPT !.collection_times = groups[i].collection_times,
                                    !.collected_activity = groups[i].collected_activity]
                    = groups[i]
              /\ groups'[i].collection_times = Append(groups[i].collection_times, now)]_vars

\* Of two groups the first, at Group level with no cell, has had its callback
\* raise, and the second has collected a value.
C25_Witness ==
    /\ Len(groups) = 2
    /\ groups[1].color_level = "Group"
    /\ groups[1].cells = <<>>
    /\ Len(groups[1].collection_times) >= 1
    /\ groups[1].collected_activity = EmptyActivity
    /\ Len(groups[2].collection_times) >= 1
    /\ Len(groups[2].collected_activity.keys) >= 1

\* C26: send_activity leaves the collection_times and the
\* collected_activity of every group, and the groups, as they were; and
\* when the groups are as the send before found them, it makes the requests
\* that send made, in the same order.
C26_SendActivityLeavesGroupsUnchanged ==
    [][SendActivity =>
          /\ groups' = groups
          /\ sent_groups = groups => (sent' = sent /\ raised' = raised)]_vars

\* send_activity has sent a series of three samples, its times scaled to
\* frames in the request, and the groups are as it found them.
C26_Witness ==
    /\ sent_groups = groups
    /\ Len(groups[1].collection_times) = 3
    /\ Len(sent) >= 1
    /\ Len(sent[1].args) >= 1
    /\ sent[1].args[1].times # <<>>
    /\ sent[1].args[1].times[Len(sent[1].args[1].times)] = 2 * groups[1].frames_per_ms
    /\ groups[1].collection_times = <<0, 1, 2>>


-----------------------------------------------------------------------------
(* Properties of the containers and of the view (SpecView) *)

\* The sections whose container is held.
Made == {c \in 1..Len(containers) : containers[c].made}

\* The section the section s is a child of, 0 if it is a root.
ParentSection(s) ==
    IF \E q \in 1..Len(secs) : \E i \in 1..Len(secs[q].children) : secs[q].children[i] = s
    THEN CHOOSE q \in 1..Len(secs) : \E i \in 1..Len(secs[q].children) : secs[q].children[i] = s
    ELSE 0

\* The flag of every container is set exactly when link() is the last of
\* link(), unlink() and remove() to have been carried out on it.
LinkedIsLastLink ==
    \A c \in 1..Len(containers) :
        containers[c].linked <=> (last_returned[c] = "link")

\* show on a group whose granularity is not "Section" raises
\* NotImplementedError, and no container is ever made.
OtherGranularityRaises ==
    view.recording_granularity # "Section" =>
        /\ Made = {}
        /\ view.pc \in {"show", "raised"}
        /\ view.pc = "raised" =>
               /\ returned.op = "show"
               /\ returned.err = "NotImplementedError"

\* show parents no container before it has linked them all, and when it has
\* returned, the container of every section is the child of the container
\* of the section's parent.
ShowLinksThenParents ==
    /\ view.pc \in {"show", "create", "link"} =>
           \A c \in 1..Len(containers) : containers[c].parent = 0
    /\ view.pc = "parent" =>
           /\ Made = 1..Len(secs)
           /\ \A c \in Made : containers[c].linked /\ containers[c].parent = 0
    /\ (view.pc = "done" /\ returned.op = "show") =>
           /\ returned.err = "none"
           /\ \A c \in Made : containers[c].linked
           /\ \A c \in Made : containers[c].parent = ParentSection(c)

\* A step gives a container a parent only when the container and the
\* parent's container are both linked, and a call of set_parent_object on a
\* pair that is not raises Exception and leaves every parent as it was.
ParentOnlyWhenBothLinked ==
    /\ \A c \in 1..Len(containers) :
           containers'[c].parent # containers[c].parent =>
               /\ containers[c].linked
               /\ containers'[c].parent \in Made
               /\ containers[containers'[c].parent].linked
    /\ \A c \in Made : \A p \in Made \ {c} :
           (SetParentObject(c, p) /\ ~(containers[c].linked /\ containers[p].linked)) =>
               /\ returned'.err = "Exception"
               /\ containers' = containers

=============================================================================
